---- MODULE Spec2Model ----
(***************************************************************************)
(* CSS Scanner browser extension: the content script's style cache,       *)
(* analyzer, clipboard writer, popup manager, event dispatcher and        *)
(* scanner orchestrator (src/content/content.js) as a state machine,      *)
(* with the message handlers of the content script and of the service     *)
(* worker (src/background/background.js).                                  *)
(*                                                                         *)
(* Strings that the code builds, trims or compares are sequences of       *)
(* tokens (<<"#", "a">> is "#a"): a blank, a line break and each            *)
(* punctuation mark of the CSS syntax is a token of its own, every other  *)
(* token is a piece of text the code never looks inside.                  *)
(***************************************************************************)
EXTENDS Integers, Sequences, FiniteSets, TLC

VARIABLES
  \* ---- BackgroundService and the messages
  tabCache,         \* BackgroundService.tabCache: tabId -> [result, timestamp]
  lastMessage,      \* observation: the latest runtime message and the sendResponse
                    \* calls it got
  worker,           \* the ensureContentScript calls under way with the await each
                    \* is at, and the active tab: open or not, the content script
                    \* loaded in its page or not, the injections into that page
  \* ---- PopupController (the extension's popup page)
  controller,       \* PopupController: the scanning mirror, the button, the status
                    \* line, the toggles under way and the restore timers pending
  lastCall,         \* observation: the latest call of an operation applied on its
                    \* own, with its arguments and its result
  \* ---- StyleCache and the clock it reads
  now,              \* Date.now(), in ms
  cache,            \* StyleCache.cache: element -> [style, timestamp]
  selectorCache,    \* StyleCache.selectorCache: element -> selector
  lastClearTime,    \* StyleCache.lastClearTime
  nextCleanup,      \* time of the next setInterval(.., 30000) callback
  pageStyle,        \* what window.getComputedStyle answers for each element
  lastGet,          \* observation: the latest StyleCache.getComputedStyle call
  \* ---- ElementSelector
  highlightedElement,  \* ElementSelector.highlightedElement
  lastHoverElement,    \* ElementSelector.lastHoverElement
  marked,              \* the nodes whose classList holds css-scanner-highlight
  \* ---- ErrorHandler and the system clipboard
  errorCounts,      \* ErrorHandler.errorCounts: <<type, message>> -> occurrences
  clipboard,        \* the system clipboard: [set, text]
  lastCopy,         \* observation: the latest ClipboardManager.copyToClipboard call
  \* ---- CSSScanner, PopupManager, EventHandler and the page's popups
  isScanning,          \* CSSScanner.isScanning
  currentElementData,  \* CSSScanner.currentElementData
  popup,               \* PopupManager.popup and the element it refers to
  strayPopups,         \* .css-scanner-popup elements in the page that PopupManager.popup
                       \* does not refer to
  isPinned,            \* PopupManager.isPinned
  pinnedPosition,      \* PopupManager.pinnedPosition
  renderAnimationFrame,  \* PopupManager.renderAnimationFrame: a frame is requested
  mousePosition,       \* EventHandler.mousePosition
  hoverTimeout,        \* EventHandler.hoverTimeout: null or a timer id
  inThrottle,          \* the throttle closure's flag around handleMouseMove
  listening,           \* the document carries the bound listeners
  timers,              \* pending setTimeout callbacks, in creation order
  hoverTrail,          \* observation: the pointer-over events dispatched since the
                       \* debounce last settled: how many, and the last one's target
  lastFired,           \* observation: the run of the debounced hover callback, if
                       \* that was the latest step
  lastEvent            \* observation: the pointer event or grace timer, if that was
                       \* the latest step

cacheVars == <<now, cache, selectorCache, lastClearTime, nextCleanup, pageStyle,
               lastGet>>

selectorVars == <<highlightedElement, lastHoverElement, marked>>

copyVars == <<errorCounts, clipboard, lastCopy>>

scanVars == <<isScanning, currentElementData, popup, strayPopups, isPinned,
              pinnedPosition, renderAnimationFrame, mousePosition, hoverTimeout,
              inThrottle, listening, timers, hoverTrail, lastFired, lastEvent>>

messageVars == <<tabCache, lastMessage>>

controlVars == <<controller, lastCall, worker>>

vars == <<cacheVars, selectorVars, copyVars, scanVars, messageVars, controlVars>>

\* What the style cache's own operations leave alone.
notCacheVars == <<selectorVars, copyVars, scanVars, messageVars, controlVars>>

\* What a clipboard copy leaves alone.
notCopyVars == <<cacheVars, selectorVars, scanVars, messageVars, controlVars>>

-----------------------------------------------------------------------------
(* Text *)

\* A one-token string.
S(tok) == <<tok>>

EmptyStr == << >>

\* Tokens that String.prototype.trim removes.
Whitespace == {" ", "\n"}

RECURSIVE TrimLeft(_)
TrimLeft(s) ==
  IF s = << >> THEN s
  ELSE IF Head(s) \in Whitespace THEN TrimLeft(Tail(s)) ELSE s

RECURSIVE TrimRight(_)
TrimRight(s) ==
  IF s = << >> THEN s
  ELSE IF s[Len(s)] \in Whitespace THEN TrimRight(SubSeq(s, 1, Len(s) - 1)) ELSE s

\* String.prototype.trim
Trim(s) == TrimRight(TrimLeft(s))

\* Array.prototype.join over strings
RECURSIVE Join(_, _)
Join(parts, sep) ==
  IF parts = << >> THEN EmptyStr
  ELSE IF Len(parts) = 1 THEN parts[1]
  ELSE parts[1] \o sep \o Join(Tail(parts), sep)

\* The empty object {} / an empty mapping
EmptyMap == << >>

-----------------------------------------------------------------------------
(* The page: a small document the scanner is pointed at *)

\* body > div#a > p ; body > span.x
Elements == {"A", "B", "C"}

Body == "BODY"
Html == "HTML"
NoNode == "null"

Nodes == Elements \cup {Body, Html}

\* Two nodes an event can name whose tagName is no string: a form holding a
\* control named "tagName", which the form's named properties put in the place
\* of Element.tagName, and the document itself, which has no tagName.
Form == "FORM"
Document == "document"

\* What element.tagName is: a string, undefined, or an object (the control)
TagNameKind(n) ==
  CASE n = Form -> "object" [] n = Document -> "undefined" [] OTHER -> "string"

\* element.tagName (upper case in an HTML document)
TagName(n) ==
  CASE n = "A" -> "DIV" [] n = "B" -> "P" [] n = "C" -> "SPAN"
    [] n = Body -> "BODY" [] OTHER -> "HTML"

\* String.prototype.toLowerCase on tag names
ToLowerCase(tag) ==
  CASE tag = "DIV" -> "div" [] tag = "P" -> "p" [] tag = "SPAN" -> "span"
    [] tag = "BODY" -> "body" [] tag = "HTML" -> "html" [] OTHER -> tag

\* element.id
IdOf(n) == IF n = "A" THEN "a" ELSE ""

\* the classes the page gave the element
PageClasses(n) == IF n = "C" THEN <<"x">> ELSE << >>

\* element.parentElement
ParentElement(n) ==
  CASE n = "A" -> Body [] n = "B" -> "A" [] n = "C" -> Body
    [] n = Body -> Html [] OTHER -> NoNode

\* element.parentNode.children, in document order
ChildrenOf(n) ==
  CASE n = Body -> <<"A", "C">> [] n = "A" -> <<"B">> [] n = Html -> <<Body>>
    [] n = NoNode -> <<Html>> [] OTHER -> << >>

RECURSIVE IsAncestorOrSelf(_, _)
\* Node.contains: a is d or an ancestor of d
IsAncestorOrSelf(a, d) ==
  IF d = NoNode THEN FALSE
  ELSE IF a = d THEN TRUE ELSE IsAncestorOrSelf(a, ParentElement(d))

\* The properties the page's computed styles are observed on; "cursor" is one
\* the cache does not keep.
PageProps == {"color", "cursor", "display", "margin", "opacity"}

StyleFlex ==
  [p \in PageProps |->
     CASE p = "color" -> S("rgb(0, 0, 0)") [] p = "cursor" -> S("auto")
       [] p = "display" -> S("flex") [] p = "margin" -> S("0px")
       [] OTHER -> S("1")]

StyleHidden ==
  [p \in PageProps |->
     CASE p = "color" -> S("rgba(0, 0, 0, 0)") [] p = "cursor" -> S("auto")
       [] p = "display" -> S("none") [] p = "margin" -> EmptyStr
       [] OTHER -> S("0")]

PageStyles == {StyleFlex, StyleHidden}

-----------------------------------------------------------------------------
(* StyleCache *)

maxCacheAge == 30000

cleanupAge == 60000

cleanupInterval == 30000

importantProps ==
  {"display", "position", "top", "right", "bottom", "left", "float", "clear", "z-index",
   "width", "height", "min-width", "min-height", "max-width", "max-height",
   "margin", "margin-top", "margin-right", "margin-bottom", "margin-left",
   "padding", "padding-top", "padding-right", "padding-bottom", "padding-left",
   "border", "border-width", "border-style", "border-color", "border-radius",
   "background", "background-color", "background-image", "background-size",
   "font-family", "font-size", "font-weight", "line-height", "color", "text-align",
   "flex", "flex-direction", "justify-content", "align-items", "grid",
   "opacity", "transform", "transition", "box-shadow"}

\* computedStyle.getPropertyValue(prop): "" for a property the style lacks
GetPropertyValue(computedStyle, prop) ==
  IF prop \in DOMAIN computedStyle THEN computedStyle[prop] ELSE EmptyStr

cacheImportantProperties(computedStyle) ==
  [p \in {q \in importantProps : GetPropertyValue(computedStyle, q) # EmptyStr}
     |-> computedStyle[p]]

\* WeakMap.set
MapSet(m, k, v) == [x \in DOMAIN m \cup {k} |-> IF x = k THEN v ELSE m[x]]

\* WeakMap.delete
MapDelete(m, k) == [x \in DOMAIN m \ {k} |-> m[x]]

IsStaleNever(timestamp, t) == FALSE

\* Date.now() - cached.timestamp > this.maxCacheAge
IsStale(timestamp, t) == t - timestamp > maxCacheAge

\* A faulty getComputedStyle: the stale entry is deleted but still returned.
StyleLookupNoRecompute(c, e, t, platform, throws) ==
  IF e \notin DOMAIN c
  THEN IF throws
       THEN [cache |-> c, style |-> EmptyMap, timestamp |-> -1, queries |-> 1,
             threw |-> TRUE]
       ELSE [cache |-> MapSet(c, e, [style |-> cacheImportantProperties(platform),
                                      timestamp |-> t]),
             style |-> cacheImportantProperties(platform), timestamp |-> t,
             queries |-> 1, threw |-> FALSE]
  ELSE [cache |-> IF t - c[e].timestamp > maxCacheAge THEN MapDelete(c, e) ELSE c,
        style |-> c[e].style, timestamp |-> c[e].timestamp, queries |-> 0,
        threw |-> FALSE]

RECURSIVE StyleLookup(_, _, _, _, _)
\* The body of StyleCache.getComputedStyle at time t, where window.getComputedStyle
\* answers `platform` or throws: the cache afterwards, the style returned, the
\* timestamp of the snapshot it came from, and how often the platform was asked.
StyleLookup(c, e, t, platform, throws) ==
  IF e \notin DOMAIN c /\ throws
  THEN [cache |-> c, style |-> EmptyMap, timestamp |-> -1, queries |-> 1,
        threw |-> TRUE]
  ELSE
    LET c1 == IF e \in DOMAIN c THEN c
              ELSE MapSet(c, e, [style |-> cacheImportantProperties(platform),
                                 timestamp |-> t])
        q1 == IF e \in DOMAIN c THEN 0 ELSE 1
        cached == c1[e]
    IN IF IsStale(cached.timestamp, t)
       THEN LET r == StyleLookup(MapDelete(c1, e), e, t, platform, throws)
            IN [r EXCEPT !.queries = @ + q1]
       ELSE [cache |-> c1, style |-> cached.style, timestamp |-> cached.timestamp,
             queries |-> q1, threw |-> FALSE]

\* The class added to the highlighted element.
HighlightClass == "css-scanner-highlight"

\* cls.includes('css-scanner')
IsInternalClass(cls) == cls = HighlightClass

\* No getComputedStyle call yet
NoCall == [called |-> FALSE, e |-> "", time |-> 0, queries |-> 0, style |-> EmptyMap,
           threw |-> FALSE, age |-> 0, hadEntry |-> FALSE, entryAge |-> 0,
           entryStyle |-> EmptyMap, gap |-> -1, prevStyle |-> EmptyMap,
           prevThrew |-> FALSE]

\* What lastGet records of a getComputedStyle(e) call answered by `r`, made with
\* cache `c` when the previous record was `prev`
GetRecord(e, r, c, prev) ==
  [called |-> TRUE, e |-> e, time |-> now, queries |-> r.queries,
   style |-> r.style, threw |-> r.threw,
   age |-> IF r.threw THEN 0 ELSE now - r.timestamp,
   hadEntry |-> e \in DOMAIN c,
   entryAge |-> IF e \in DOMAIN c THEN now - c[e].timestamp ELSE 0,
   entryStyle |-> IF e \in DOMAIN c THEN c[e].style ELSE EmptyMap,
   gap |-> IF prev.called /\ prev.e = e THEN now - prev.time ELSE -1,
   prevStyle |-> IF prev.called /\ prev.e = e THEN prev.style ELSE EmptyMap,
   prevThrew |-> prev.called /\ prev.e = e /\ prev.threw]

\* element.className.split(' '): the page's classes, then the marker if present
ClassList(n, mk) ==
  PageClasses(n) \o (IF n \in mk THEN <<HighlightClass>> ELSE << >>)

RECURSIVE FilterClasses(_)
\* .filter(cls => cls && !cls.includes('css-scanner'))
FilterClasses(cs) ==
  IF cs = << >> THEN << >>
  ELSE IF Head(cs) # "" /\ ~IsInternalClass(Head(cs))
       THEN <<Head(cs)>> \o FilterClasses(Tail(cs))
       ELSE FilterClasses(Tail(cs))

\* Array.prototype.slice(0, n)
Slice(s, n) == SubSeq(s, 1, IF Len(s) < n THEN Len(s) ELSE n)

SeqToSet(s) == {s[i] : i \in DOMAIN s}

\* document.querySelectorAll('.c1.c2...').length
CountMatches(classes, mk) ==
  Cardinality({n \in Nodes : SeqToSet(classes) \subseteq SeqToSet(ClassList(n, mk))})

\* '.' + classes.join('.')
ClassSelector(classes) == <<".">> \o Join([i \in DOMAIN classes |-> S(classes[i])], <<".">>)

\* siblings.indexOf(current) + 1
IndexOf(s, x) == IF \E i \in DOMAIN s : s[i] = x
                 THEN CHOOSE i \in DOMAIN s : s[i] = x /\ \A j \in 1..(i - 1) : s[j] # x
                 ELSE 0

\* One step of the path: the tag, with :nth-child(n) for 2..10 siblings
PathStep(current) ==
  LET siblings == ChildrenOf(ParentElement(current))
  IN S(ToLowerCase(TagName(current))) \o
     (IF Len(siblings) > 1 /\ Len(siblings) <= 10
      THEN <<":nth-child(", ToString(IndexOf(siblings, current)), ")">>
      ELSE << >>)

RECURSIVE SelectorPath(_, _, _)
\* while (current && current !== document.body && depth < 3) path.unshift(..)
SelectorPath(current, depth, path) ==
  IF current # NoNode /\ current # Body /\ depth < 3
  THEN SelectorPath(ParentElement(current), depth + 1, <<PathStep(current)>> \o path)
  ELSE path

\* A faulty generateOptimizedSelector: the first line's guard is missing, so that
\* a missing element throws inside the wrapper and the body takes the long way.
generateOptimizedSelectorUnguarded(element, mk) ==
  IF element = NoNode THEN S("unknown")
  ELSE IF IdOf(element) # "" THEN <<"#", IdOf(element)>>
  ELSE
    LET classes == Slice(FilterClasses(ClassList(element, mk)), 3)
        path == SelectorPath(element, 0, << >>)
    IN IF ClassList(element, mk) # << >> /\ Len(classes) > 0
          /\ CountMatches(classes, mk) <= 5
       THEN ClassSelector(classes)
       ELSE IF TagNameKind(element) # "string" THEN S("unknown")
       ELSE IF Join(path, <<" ", ">", " ">>) # EmptyStr THEN Join(path, <<" ", ">", " ">>)
       ELSE S(ToLowerCase(TagName(element)))

\* StyleCache.generateOptimizedSelector
generateOptimizedSelector(element, mk) ==
  IF element = NoNode \/ element = Body THEN S("body")
  ELSE IF IdOf(element) # "" THEN <<"#", IdOf(element)>>
  ELSE
    LET classes == Slice(FilterClasses(ClassList(element, mk)), 3)
        path == SelectorPath(element, 0, << >>)
    IN IF ClassList(element, mk) # << >> /\ Len(classes) > 0
          /\ CountMatches(classes, mk) <= 5
       THEN ClassSelector(classes)
       \* current.tagName.toLowerCase() throws on the first step of the path
       ELSE IF TagNameKind(element) # "string" THEN S("unknown")
       ELSE IF Join(path, <<" ", ">", " ">>) # EmptyStr THEN Join(path, <<" ", ">", " ">>)
       ELSE S(ToLowerCase(TagName(element)))

\* StyleCache.getSelector: the selector cache afterwards and the selector returned
SelectorLookup(sc, e, mk) ==
  LET sc1 == IF e \in DOMAIN sc THEN sc ELSE MapSet(sc, e, generateOptimizedSelector(e, mk))
  IN [selectorCache |-> sc1, selector |-> sc1[e]]

-----------------------------------------------------------------------------
(* ErrorHandler *)

maxRetries == 3

\* Map.get(errorKey) || 0
ErrorCount(counts, type, message) ==
  IF <<type, message>> \in DOMAIN counts THEN counts[<<type, message>>] ELSE 0

\* A faulty handleError: the comparison lets one more occurrence through.
HandleErrorOneMore(counts, type, message) ==
  [counts |-> MapSet(counts, <<type, message>>, ErrorCount(counts, type, message) + 1),
   suppressed |-> ErrorCount(counts, type, message) > maxRetries,
   attempted |-> ~(ErrorCount(counts, type, message) > maxRetries),
   reported |-> ~(ErrorCount(counts, type, message) > maxRetries)]

\* ErrorHandler.handleError: the occurrence is counted, and the recovery
\* (attemptRecovery) and the user message (showUserFriendlyError) are skipped
\* from the fourth occurrence on by the early return.
HandleError(counts, type, message) ==
  [counts |-> MapSet(counts, <<type, message>>, ErrorCount(counts, type, message) + 1),
   suppressed |-> ErrorCount(counts, type, message) >= maxRetries,
   attempted |-> ~(ErrorCount(counts, type, message) >= maxRetries),
   reported |-> ~(ErrorCount(counts, type, message) >= maxRetries)]

-----------------------------------------------------------------------------
(* CSSAnalyzer *)

invalidValues ==
  {S("auto"), S("normal"), S("none"), S("initial"), S("inherit"), S("unset"),
   S("0px"), S("0"), S("rgba(0, 0, 0, 0)"), S("transparent")}

\* CSSAnalyzer.isValidCSSValue
isValidCSSValue(value) == value # EmptyStr /\ Trim(value) \notin invalidValues

cssCategories ==
  [layout |-> {"display", "position", "top", "right", "bottom", "left", "float", "clear",
               "z-index"},
   boxModel |-> {"width", "height", "min-width", "min-height", "max-width", "max-height",
                 "margin", "margin-top", "margin-right", "margin-bottom", "margin-left",
                 "padding", "padding-top", "padding-right", "padding-bottom",
                 "padding-left"},
   border |-> {"border", "border-width", "border-style", "border-color", "border-radius",
               "border-top", "border-right", "border-bottom", "border-left"},
   background |-> {"background", "background-color", "background-image",
                   "background-size", "background-position", "background-repeat"},
   typography |-> {"font-family", "font-size", "font-weight", "line-height", "color",
                   "text-align", "text-decoration", "letter-spacing"},
   flexGrid |-> {"flex", "flex-direction", "justify-content", "align-items", "grid",
                 "grid-template-columns", "grid-template-rows", "gap"},
   effects |-> {"opacity", "transform", "transition", "animation", "box-shadow", "filter"}]

\* The properties of one category that survive the filter
CategoryData(computedStyle, category) ==
  [p \in {q \in cssCategories[category] \cap DOMAIN computedStyle :
            computedStyle[q] # EmptyStr /\ isValidCSSValue(computedStyle[q])}
     |-> computedStyle[p]]

\* A faulty categorizeStyles: a category is kept though nothing survived in it.
categorizeStylesKeepsEmpty(computedStyle) ==
  [c \in DOMAIN cssCategories |-> CategoryData(computedStyle, c)]

\* CSSAnalyzer.categorizeStyles
categorizeStyles(computedStyle) ==
  [c \in {k \in DOMAIN cssCategories : DOMAIN CategoryData(computedStyle, k) # {}}
     |-> CategoryData(computedStyle, c)]

\* element.style.cssText of the page's elements
InlineCssText(n) ==
  CASE n = "A" -> <<"color", ":", " ", "inherit", ";", " ", "opacity", ":", " ", "0", ";">>
    [] n = "C" -> <<"background", ":", " ", "transparent", ";">>
    [] OTHER -> EmptyStr

RECURSIVE Split(_, _)
\* String.prototype.split(sep), sep one token
Split(s, sep) ==
  IF \E i \in DOMAIN s : s[i] = sep
  THEN LET i == IndexOf(s, sep)
       IN <<SubSeq(s, 1, i - 1)>> \o Split(SubSeq(s, i + 1, Len(s)), sep)
  ELSE <<s>>

RECURSIVE ParseDeclarations(_, _)
\* The loop of extractInlineStyles over the declarations of cssText
ParseDeclarations(declarations, inline) ==
  IF declarations = << >> THEN inline
  ELSE
    LET declaration == Head(declarations)
        colonIndex == IndexOf(declaration, ":")
        prop == Trim(SubSeq(declaration, 1, colonIndex - 1))
        value == Trim(SubSeq(declaration, colonIndex + 1, Len(declaration)))
    IN ParseDeclarations(
         Tail(declarations),
         IF Trim(declaration) # EmptyStr /\ colonIndex > 1
            /\ prop # EmptyStr /\ value # EmptyStr
         THEN MapSet(inline, prop[1], value)
         ELSE inline)

\* CSSAnalyzer.extractInlineStyles
extractInlineStyles(cssText) ==
  IF cssText = EmptyStr THEN EmptyMap
  ELSE ParseDeclarations(Split(cssText, ";"), EmptyMap)

\* element.className: the class list joined by blanks
ClassNameOf(n, mk) ==
  Join([i \in DOMAIN ClassList(n, mk) |-> S(ClassList(n, mk)[i])], <<" ">>)

\* The result CSSAnalyzer.extractCSSInfo builds from what the style cache answers
CssInfo(n, mk, computedStyle, selector) ==
  [element |-> [kind |-> "info",
                tagName |-> ToLowerCase(TagName(n)),
                className |-> ClassNameOf(n, mk),
                id |-> IdOf(n),
                selector |-> selector],
   computed |-> computedStyle,
   inline |-> extractInlineStyles(InlineCssText(n)),
   categorized |-> categorizeStyles(computedStyle)]

\* The degraded result of CSSAnalyzer.extractCSSInfo
DegradedInfo(n, mk) ==
  [element |-> [kind |-> "info",
                tagName |-> ToLowerCase(TagName(n)),
                className |-> ClassNameOf(n, mk),
                id |-> IdOf(n),
                selector |-> S("unknown")],
   computed |-> EmptyMap,
   inline |-> EmptyMap,
   categorized |-> EmptyMap]

\* CSSAnalyzer.extractCSSInfo(element), given what the style cache answers for the
\* element: whether it raised, the result, and the error counts afterwards.  The
\* wrapped body throws for a missing element and at element.tagName.toLowerCase()
\* when tagName is no string; the result built after a failure calls
\* element?.tagName?.toLowerCase() once more, outside the wrapper.
extractCSSInfo(element, computedStyle, selector, mk, counts) ==
  IF element = NoNode
  THEN [raised |-> FALSE,
        info |-> [DegradedInfo(element, mk) EXCEPT !.element.tagName = "unknown",
                                                   !.element.className = EmptyStr,
                                                   !.element.id = ""],
        counts |-> HandleError(counts, "CSS_ANALYSIS_FAILED",
                               "Element is null or undefined").counts]
  ELSE IF TagNameKind(element) = "string"
  THEN [raised |-> FALSE, info |-> CssInfo(element, mk, computedStyle, selector),
        counts |-> counts]
  ELSE IF TagNameKind(element) = "undefined"
  THEN [raised |-> FALSE,
        info |-> [DegradedInfo(element, mk) EXCEPT !.element.tagName = "unknown"],
        counts |-> HandleError(counts, "CSS_ANALYSIS_FAILED", "TypeError").counts]
  ELSE [raised |-> TRUE, info |-> EmptyMap,
        counts |-> HandleError(counts, "CSS_ANALYSIS_FAILED", "TypeError").counts]

\* { ...cssInfo, isPinned: willPin, element: element } of CSSScanner.analyzeElement:
\* the later `element` key replaces cssInfo.element by the DOM node.
StoredElementData(cssInfo, n, willPin) ==
  [element |-> [kind |-> "node", node |-> n],
   computed |-> cssInfo.computed,
   inline |-> cssInfo.inline,
   categorized |-> cssInfo.categorized,
   isPinned |-> willPin]

\* elementField.selector: a DOM node has no such property (undefined)
SelectorProperty(elementField) ==
  IF elementField.kind = "info" THEN elementField.selector ELSE EmptyStr

\* elementField.tagName: upper case on a DOM node
TagNameProperty(elementField) ==
  IF elementField.kind = "info" THEN elementField.tagName ELSE TagName(elementField.node)

-----------------------------------------------------------------------------
(* ClipboardManager *)

\* Property names in the order String.prototype.localeCompare sorts them
LocaleOrder ==
  <<"background", "color", "cursor", "display", "margin", "opacity">>

\* The filter of generateCSSText
KeepsInCSSText(value) ==
  /\ value # EmptyStr
  /\ value # S("none") /\ value # S("auto") /\ value # S("normal")
  /\ value # S("initial") /\ value # S("0px") /\ value # S("rgba(0, 0, 0, 0)")

\* `  ${prop}: ${value};`
CSSLine(prop, value) == <<" ", " ", prop, ":", " ">> \o value \o <<";">>

\* The filtered, sorted and formatted declarations of generateCSSText
CSSLines(styles) ==
  LET kept == SelectSeq(LocaleOrder,
                        LAMBDA p : p \in DOMAIN styles /\ KeepsInCSSText(styles[p]))
  IN [i \in DOMAIN kept |-> CSSLine(kept[i], styles[kept[i]])]

\* ClipboardManager.generateCSSText
generateCSSText(styles, selector) ==
  IF DOMAIN styles = {} \/ CSSLines(styles) = << >> THEN EmptyStr
  ELSE (IF selector # EmptyStr THEN selector \o <<" ">> ELSE EmptyStr)
       \o <<"{", "\n">> \o Join(CSSLines(styles), <<"\n">>) \o <<"\n", "}">>

\* Object.assign over the categories' maps
MergeCategories(categorized) ==
  [p \in UNION {DOMAIN categorized[c] : c \in DOMAIN categorized} |->
     LET c == CHOOSE k \in DOMAIN categorized : p \in DOMAIN categorized[k]
     IN categorized[c][p]]

\* ClipboardManager.generateAllCSSText
generateAllCSSText(elementData, selector) ==
  IF DOMAIN elementData.computed = {}
  THEN generateCSSText(MergeCategories(elementData.categorized), selector)
  ELSE generateCSSText(elementData.computed, selector)

\* ClipboardManager.isValidCopyText
isValidCopyText(textToCopy, selector) ==
  /\ textToCopy # EmptyStr
  /\ Trim(textToCopy) # EmptyStr
  /\ textToCopy # <<"{", "}">>
  /\ textToCopy # selector \o <<" ", "{", "\n", "\n", "}">>

copyTypeNames ==
  [selector |-> "Selector", all |-> "All CSS", computed |-> "Computed styles",
   inline |-> "Inline styles"]

CopyTypes == {"selector", "all", "computed", "inline"}

\* The clipboard as the platform offers it: navigator.clipboard.writeText resolves,
\* rejects or is absent; document.execCommand('copy') returns true or false.
ClipboardEnvs == [api : {"ok", "reject", "absent"}, exec : BOOLEAN]

NoContentText == S("No content to copy.")

\* ClipboardManager.performCopy
performCopy(text, env, board) ==
  IF env.api = "ok"
  THEN [success |-> TRUE, clipboard |-> [set |-> TRUE, text |-> text],
        apiCalls |-> 1, execCalls |-> 0]
  ELSE [success |-> env.exec,
        clipboard |-> IF env.exec THEN [set |-> TRUE, text |-> text] ELSE board,
        apiCalls |-> IF env.api = "reject" THEN 1 ELSE 0, execCalls |-> 1]

\* ErrorHandler.recoverClipboardAccess with the context copyToClipboard passes
\* ({elementData, type}: no text)
recoverClipboardAccess(env, board) ==
  [clipboard |-> IF env.exec THEN [set |-> TRUE, text |-> NoContentText] ELSE board,
   execCalls |-> 1]

\* A faulty switch: the selector case lacks its break and falls into the next.
TextToCopyFallThrough(elementData, type) ==
  LET selector == SelectorProperty(elementData.element)
  IN CASE type \in {"selector", "all", "computed"} ->
            [raised |-> FALSE, error |-> "",
             text |-> generateAllCSSText(elementData, selector)]
       [] type = "inline" ->
            IF DOMAIN elementData.inline = {}
            THEN [raised |-> TRUE, error |-> "No inline styles found.", text |-> EmptyStr]
            ELSE [raised |-> FALSE, error |-> "",
                  text |-> generateCSSText(elementData.inline, selector)]
       [] OTHER -> [raised |-> TRUE, error |-> "Unknown copy type.", text |-> EmptyStr]

\* The text copyToClipboard chooses to copy, or the error raised on the way
TextToCopy(elementData, type) ==
  LET selector == SelectorProperty(elementData.element)
  IN CASE type = "selector" -> [raised |-> FALSE, error |-> "", text |-> selector]
       [] type \in {"all", "computed"} ->
            [raised |-> FALSE, error |-> "",
             text |-> generateAllCSSText(elementData, selector)]
       [] type = "inline" ->
            IF DOMAIN elementData.inline = {}
            THEN [raised |-> TRUE, error |-> "No inline styles found.", text |-> EmptyStr]
            ELSE [raised |-> FALSE, error |-> "",
                  text |-> generateCSSText(elementData.inline, selector)]
       [] OTHER -> [raised |-> TRUE, error |-> "Unknown copy type.", text |-> EmptyStr]

\* ClipboardManager.copyToClipboard, error handling included: whether it raised and
\* with what, the label returned, the clipboard and error counts afterwards, and
\* the writes attempted on the way.
copyToClipboard(elementData, type, env, counts, board) ==
  LET selector == SelectorProperty(elementData.element)
      chosen == TextToCopy(elementData, type)
      \* generateInlineCSSText reports its own failure before rethrowing
      counts1 == IF chosen.raised /\ type = "inline"
                 THEN HandleError(counts, "INLINE_CSS_GENERATION_ERROR", chosen.error).counts
                 ELSE counts
      valid == ~chosen.raised /\ isValidCopyText(chosen.text, selector)
      copied == performCopy(chosen.text, env, board)
      error == IF chosen.raised THEN chosen.error
               ELSE IF ~valid THEN "No CSS content to copy."
               ELSE IF ~copied.success THEN "Copy failed."
               ELSE ""
      board1 == IF valid THEN copied.clipboard ELSE board
      handled == HandleError(counts1, "CLIPBOARD_WRITE_FAILED", error)
      recovery == recoverClipboardAccess(env, board1)
  IN IF error = ""
     THEN [raised |-> FALSE, error |-> "", label |-> copyTypeNames[type],
           text |-> chosen.text, counts |-> counts1, clipboard |-> board1,
           apiCalls |-> copied.apiCalls, execCalls |-> copied.execCalls,
           recovered |-> FALSE]
     ELSE [raised |-> TRUE, error |-> error, label |-> "",
           text |-> chosen.text, counts |-> handled.counts,
           clipboard |-> IF handled.suppressed THEN board1 ELSE recovery.clipboard,
           apiCalls |-> IF valid THEN copied.apiCalls ELSE 0,
           execCalls |-> (IF valid THEN copied.execCalls ELSE 0)
                         + (IF handled.suppressed THEN 0 ELSE recovery.execCalls),
           recovered |-> ~handled.suppressed]

-----------------------------------------------------------------------------
(* PopupManager *)

\* The viewport and the popup's box: content.css gives the popup 380px of width;
\* its height follows its content.
ViewportWidth == 1000
ViewportHeight == 700
PopupWidth == 380
PopupHeight == 300

\* No left/top set in the element's style
NoPosition == << >>

\* PopupManager.popup = null.  `sinceOut` is history, not a field of the program:
\* it tells a popup created after the latest pointer-out that set a grace timer
\* from one that was showing then.
NoPopup == [exists |-> FALSE, attached |-> FALSE, pos |-> NoPosition, show |-> FALSE,
            pinnedLook |-> FALSE, sinceOut |-> FALSE]

\* PopupManager.pinnedPosition = null
NoPinnedPosition == [set |-> FALSE, pos |-> NoPosition]

Max(a, b) == IF a >= b THEN a ELSE b
Min(a, b) == IF a <= b THEN a ELSE b

\* getBoundingClientRect of the popup: an element out of the document has an
\* empty box.
PopupRect(pp) ==
  IF pp.attached THEN [width |-> PopupWidth, height |-> PopupHeight]
  ELSE [width |-> 0, height |-> 0]

\* The four candidates of PopupManager.updatePopupPosition around the cursor
Candidates(mouse, popupWidth, popupHeight) ==
  << <<mouse[1] + 20, mouse[2] + 20>>,
     <<mouse[1] - popupWidth - 20, mouse[2] + 20>>,
     <<mouse[1] + 20, mouse[2] - popupHeight - 20>>,
     <<mouse[1] - popupWidth - 20, mouse[2] - popupHeight - 20>> >>

\* A faulty choice: the last candidate that fits is taken.
BestPositionLastFit(mouse, rect, viewport) ==
  LET popupWidth == IF rect.width # 0 THEN rect.width ELSE 380
      popupHeight == IF rect.height # 0 THEN rect.height
                     ELSE Min(500, (viewport.height * 7) \div 10)
      positions == Candidates(mouse, popupWidth, popupHeight)
      Fits(pos) == /\ pos[1] >= 10 /\ pos[2] >= 10
                   /\ pos[1] + popupWidth <= viewport.width - 10
                   /\ pos[2] + popupHeight <= viewport.height - 10
      best == IF \E i \in 1..4 : Fits(positions[i])
              THEN positions[CHOOSE i \in 1..4 :
                               Fits(positions[i]) /\ \A j \in (i + 1)..4 : ~Fits(positions[j])]
              ELSE positions[1]
  IN <<Max(10, Min(best[1], viewport.width - popupWidth - 10)),
       Max(10, Min(best[2], viewport.height - popupHeight - 10))>>

\* A faulty choice: the position chosen is not clamped.
BestPositionUnclamped(mouse, rect, viewport) ==
  LET popupWidth == IF rect.width # 0 THEN rect.width ELSE 380
      popupHeight == IF rect.height # 0 THEN rect.height
                     ELSE Min(500, (viewport.height * 7) \div 10)
      positions == Candidates(mouse, popupWidth, popupHeight)
      Fits(pos) == /\ pos[1] >= 10 /\ pos[2] >= 10
                   /\ pos[1] + popupWidth <= viewport.width - 10
                   /\ pos[2] + popupHeight <= viewport.height - 10
  IN IF \E i \in 1..4 : Fits(positions[i])
     THEN positions[CHOOSE i \in 1..4 :
                      Fits(positions[i]) /\ \A j \in 1..(i - 1) : ~Fits(positions[j])]
     ELSE positions[1]

\* The position PopupManager.updatePopupPosition gives the popup for a mouse
\* position, the popup's measured box and the window's inner size: the first of
\* four candidates around the cursor that fits the viewport with a 10px margin,
\* else the first candidate; then clamped.
BestPositionIn(mouse, rect, viewport) ==
  LET popupWidth == IF rect.width # 0 THEN rect.width ELSE 380
      popupHeight == IF rect.height # 0 THEN rect.height
                     ELSE Min(500, (viewport.height * 7) \div 10)
      positions == Candidates(mouse, popupWidth, popupHeight)
      Fits(pos) == /\ pos[1] >= 10 /\ pos[2] >= 10
                   /\ pos[1] + popupWidth <= viewport.width - 10
                   /\ pos[2] + popupHeight <= viewport.height - 10
      best == IF \E i \in 1..4 : Fits(positions[i])
              THEN positions[CHOOSE i \in 1..4 :
                               Fits(positions[i]) /\ \A j \in 1..(i - 1) : ~Fits(positions[j])]
              ELSE positions[1]
  IN <<Max(10, Min(best[1], viewport.width - popupWidth - 10)),
       Max(10, Min(best[2], viewport.height - popupHeight - 10))>>

\* The position in the window the scanner's page is shown in
BestPosition(mouse, rect) ==
  BestPositionIn(mouse, rect, [width |-> ViewportWidth, height |-> ViewportHeight])

\* PopupManager.updatePopupPosition(mousePosition)
updatePopupPosition(s, mouse) ==
  IF ~s.popup.exists \/ s.isPinned THEN s
  ELSE [s EXCEPT !.popup.pos = BestPosition(mouse, PopupRect(s.popup))]

\* PopupManager.updatePinnedState()
updatePinnedState(s) ==
  IF ~s.popup.exists THEN s ELSE [s EXCEPT !.popup.pinnedLook = s.isPinned]

\* PopupManager.pinPopup()
pinPopup(s) ==
  LET s1 == [s EXCEPT !.isPinned = TRUE]
  IN IF s1.popup.exists
     THEN updatePinnedState([s1 EXCEPT !.pinnedPosition = [set |-> TRUE, pos |-> s1.popup.pos]])
     ELSE s1

\* PopupManager.unpinPopup()
unpinPopup(s) ==
  updatePinnedState([s EXCEPT !.isPinned = FALSE, !.pinnedPosition = NoPinnedPosition])

\* PopupManager.closePopup(): only a popup still in the document is removed and
\* forgotten.
closePopup(s) ==
  IF s.popup.exists /\ s.popup.attached THEN [s EXCEPT !.popup = NoPopup] ELSE s

\* PopupManager.scheduleRender(callback)
scheduleRender(s) == [s EXCEPT !.renderAnimationFrame = TRUE]

\* PopupManager.cancelRenderFrame()
cancelRenderFrame(s) == [s EXCEPT !.renderAnimationFrame = FALSE]

\* Timers: a pending setTimeout callback is [kind, delay, target, held, old], `old`
\* being history, not a field of the program: the timer is a hover debounce set
\* before the latest stopScan.  `held` is true when EventHandler.hoverTimeout
\* holds its id.
retryDelay == 1000

setTimeout(s, kind, delay, target) ==
  [s EXCEPT !.timers = Append(@, [kind |-> kind, delay |-> delay, target |-> target,
                                  held |-> FALSE, old |-> FALSE])]

\* ErrorHandler.handleError for an error of PopupManager.showPopup: counted, and
\* unless suppressed recoverPopupRender starts its delay.
HandleRenderError(s, message) ==
  LET handled == HandleError(s.errorCounts, "POPUP_RENDER_FAILED", message)
      s1 == [s EXCEPT !.errorCounts = handled.counts]
  IN IF handled.suppressed THEN s1 ELSE setTimeout(s1, "recover", retryDelay, NoNode)

\* PopupManager.showPopup(elementData, mousePosition); `fails` when the platform
\* throws while the new element is filled or appended.
showPopup(s, fails) ==
  LET s1 == closePopup(s)
      fresh == [exists |-> TRUE, attached |-> FALSE, pos |-> NoPosition, show |-> FALSE,
                pinnedLook |-> FALSE, sinceOut |-> TRUE]
  IN IF fails
     THEN [state |-> HandleRenderError([s1 EXCEPT !.popup = fresh], "render"),
           shown |-> FALSE]
     ELSE LET s2 == [s1 EXCEPT !.popup = [fresh EXCEPT !.attached = TRUE]]
              s3 == IF s2.isPinned /\ s2.pinnedPosition.set
                    THEN [s2 EXCEPT !.popup.pos = s2.pinnedPosition.pos]
                    ELSE updatePopupPosition(s2, s2.mousePosition)
          IN [state |-> updatePinnedState(scheduleRender(s3)), shown |-> TRUE]

-----------------------------------------------------------------------------
(* The scanner's objects as one record, so that a handler is a function from
   record to record and handlers compose as the methods call each other. *)

State ==
  [isScanning |-> isScanning, currentElementData |-> currentElementData,
   popup |-> popup, strayPopups |-> strayPopups, isPinned |-> isPinned,
   pinnedPosition |-> pinnedPosition, renderAnimationFrame |-> renderAnimationFrame,
   mousePosition |-> mousePosition, hoverTimeout |-> hoverTimeout,
   inThrottle |-> inThrottle, listening |-> listening, timers |-> timers,
   highlightedElement |-> highlightedElement, lastHoverElement |-> lastHoverElement,
   marked |-> marked, cache |-> cache, selectorCache |-> selectorCache,
   lastClearTime |-> lastClearTime, errorCounts |-> errorCounts]

Commit(s) ==
  /\ isScanning' = s.isScanning
  /\ currentElementData' = s.currentElementData
  /\ popup' = s.popup
  /\ strayPopups' = s.strayPopups
  /\ isPinned' = s.isPinned
  /\ pinnedPosition' = s.pinnedPosition
  /\ renderAnimationFrame' = s.renderAnimationFrame
  /\ mousePosition' = s.mousePosition
  /\ hoverTimeout' = s.hoverTimeout
  /\ inThrottle' = s.inThrottle
  /\ listening' = s.listening
  /\ timers' = s.timers
  /\ highlightedElement' = s.highlightedElement
  /\ lastHoverElement' = s.lastHoverElement
  /\ marked' = s.marked
  /\ cache' = s.cache
  /\ selectorCache' = s.selectorCache
  /\ lastClearTime' = s.lastClearTime
  /\ errorCounts' = s.errorCounts
  /\ UNCHANGED <<now, nextCleanup, pageStyle, lastGet>>

-----------------------------------------------------------------------------
(* ElementSelector *)

\* The target of an event that happened inside a .css-scanner-popup element
PopupNode == "popup"

\* ElementSelector.removeHighlight()
removeHighlight(s) ==
  IF s.highlightedElement # NoNode
  THEN [s EXCEPT !.marked = @ \ {s.highlightedElement}, !.highlightedElement = NoNode]
  ELSE s

\* A faulty highlightElement: the previous element keeps its marker.
highlightElementKeepsOld(s, element) ==
  [s EXCEPT !.marked = @ \cup {element},
            !.highlightedElement = element,
            !.lastHoverElement = element]

\* ElementSelector.highlightElement(element)
highlightElement(s, element) ==
  [removeHighlight(s) EXCEPT !.marked = @ \cup {element},
                             !.highlightedElement = element,
                             !.lastHoverElement = element]

\* ElementSelector.isPopupElement(element)
isPopupElement(element) == element = PopupNode

\* ElementSelector.isSameElement(element)
isSameElement(s, element) == s.lastHoverElement = element

\* ElementSelector.reset()
reset(s) == [removeHighlight(s) EXCEPT !.lastHoverElement = NoNode]

-----------------------------------------------------------------------------
(* CSSScanner *)

\* CSSScanner.currentElementData = null
NoData == [element |-> [kind |-> "null"], computed |-> EmptyMap, inline |-> EmptyMap,
           categorized |-> EmptyMap, isPinned |-> FALSE]

graceDelay == 100

\* window.getComputedStyle(element) as the page has it now
PlatformStyle(element) ==
  IF element \in DOMAIN pageStyle THEN pageStyle[element] ELSE StyleFlex

\* What the style cache and the analyzer do for CSSScanner.analyzeElement: the
\* caches and error counts afterwards, and extractCSSInfo's outcome.  The
\* selector of a node whose tagName is no string fails once
\* (SELECTOR_GENERATION_ERROR) and is cached as "unknown".
Inspect(s, element) ==
  LET look == StyleLookup(s.cache, element, now, PlatformStyle(element), FALSE)
      found == SelectorLookup(s.selectorCache, element, s.marked)
      counts == IF element \notin DOMAIN s.selectorCache /\ TagNameKind(element) # "string"
                THEN HandleError(s.errorCounts, "SELECTOR_GENERATION_ERROR",
                                 "TypeError").counts
                ELSE s.errorCounts
      extracted == extractCSSInfo(element, look.style, found.selector, s.marked, counts)
  IN [state |-> [s EXCEPT !.cache = look.cache,
                          !.selectorCache = found.selectorCache,
                          !.errorCounts = extracted.counts],
      raised |-> extracted.raised, info |-> extracted.info]

\* A faulty analyzeElement: a failed inspection ends the scan session.
analyzeElementFailureStops(s, element, willPin, fails) ==
  IF Inspect(s, element).raised
  THEN [Inspect(s, element).state EXCEPT !.isScanning = FALSE, !.listening = FALSE]
  ELSE showPopup([Inspect(s, element).state EXCEPT
                    !.currentElementData =
                       StoredElementData(Inspect(s, element).info, element, willPin)],
                 fails).state

\* CSSScanner.analyzeElement(element, willPin); `fails` when showPopup's platform
\* calls throw.  What extractCSSInfo raises is caught here and reported once
\* more; nothing is stored or shown then.
analyzeElement(s, element, willPin, fails) ==
  IF Inspect(s, element).raised
  THEN [Inspect(s, element).state EXCEPT
          !.errorCounts = HandleError(@, "CSS_ANALYSIS_FAILED", "TypeError").counts]
  ELSE showPopup([Inspect(s, element).state EXCEPT
                    !.currentElementData =
                       StoredElementData(Inspect(s, element).info, element, willPin)],
                 fails).state

\* StyleCache.clear()
clear(s) ==
  [s EXCEPT !.cache = EmptyMap, !.selectorCache = EmptyMap, !.lastClearTime = now]

\* A faulty startScan: the caches are kept.
startScanKeepsCaches(s) ==
  [unpinPopup(reset([s EXCEPT !.isScanning = TRUE])) EXCEPT !.listening = TRUE]

\* CSSScanner.startScan()
startScan(s) ==
  [clear(unpinPopup(reset([s EXCEPT !.isScanning = TRUE]))) EXCEPT !.listening = TRUE]

\* CSSScanner.stopScan()
stopScan(s) ==
  [cancelRenderFrame(closePopup(reset([s EXCEPT !.isScanning = FALSE,
                                                !.listening = FALSE])))
     EXCEPT !.currentElementData = NoData,
            !.timers = [k \in DOMAIN @ |->
                          IF @[k].kind = "hover" THEN [@[k] EXCEPT !.old = TRUE]
                          ELSE @[k]]]

\* A faulty toggleScan: it starts the scan whatever the state.
toggleScanStartsOnly(s) == startScan(s)

\* CSSScanner.toggleScan()
toggleScan(s) == IF s.isScanning THEN stopScan(s) ELSE startScan(s)

\* A faulty handleMouseMove: the popup is never repositioned.
handleMouseMoveNoReposition(s, target) == s

\* CSSScanner.handleMouseMove(event, mousePosition)
handleMouseMove(s, target) ==
  IF ~s.isScanning THEN s
  ELSE IF s.popup.exists /\ ~s.isPinned /\ ~isPopupElement(target)
       THEN updatePopupPosition(s, s.mousePosition)
       ELSE s

\* A faulty handleMouseOver: the last-hovered element is inspected again.
handleMouseOverIgnoresSame(s, target, fails) ==
  IF ~s.isScanning \/ isPopupElement(target) THEN s
  ELSE IF s.isPinned THEN s
  ELSE analyzeElement(highlightElement(s, target), target, FALSE, fails)

\* CSSScanner.handleMouseOver(event)
handleMouseOver(s, target, fails) ==
  IF ~s.isScanning \/ isPopupElement(target) THEN s
  ELSE IF s.isPinned THEN s
  ELSE IF isSameElement(s, target) THEN s
  ELSE analyzeElement(highlightElement(s, target), target, FALSE, fails)

\* CSSScanner.handleMouseOut(event)
handleMouseOut(s, target, relatedTarget) ==
  IF ~s.isScanning \/ isPopupElement(target) THEN s
  ELSE IF s.isPinned THEN s
  ELSE IF /\ relatedTarget \in Nodes
          /\ \/ IsAncestorOrSelf(target, relatedTarget)
             \/ IsAncestorOrSelf(relatedTarget, target)
       THEN s
  ELSE setTimeout(removeHighlight(s), "grace", graceDelay, NoNode)

\* CSSScanner.isMouseOverPopup(): document.elementsFromPoint at the recorded mouse
\* position meets a popup; where a popup left by the recovery lies is the
\* stylesheet's matter (`strayHit`).
isMouseOverPopup(s, strayHit) ==
  \/ /\ s.popup.exists /\ s.popup.attached /\ s.popup.pos # NoPosition
     /\ s.popup.pos[1] <= s.mousePosition[1]
     /\ s.mousePosition[1] <= s.popup.pos[1] + PopupWidth
     /\ s.popup.pos[2] <= s.mousePosition[2]
     /\ s.mousePosition[2] <= s.popup.pos[2] + PopupHeight
  \/ s.strayPopups > 0 /\ strayHit

\* A faulty grace callback: where the cursor is does not matter.
graceCloseIgnoresCursor(s, strayHit) ==
  IF ~s.isPinned THEN closePopup(s) ELSE s

\* The callback handleMouseOut leaves behind for graceDelay ms
graceClose(s, strayHit) ==
  IF ~s.isPinned /\ ~isMouseOverPopup(s, strayHit) THEN closePopup(s) ELSE s

\* A faulty handleClick: a click while pinned inspects the clicked element anew.
handleClickAlwaysInspects(s, target, fails) ==
  IF ~s.isScanning THEN s
  ELSE IF isPopupElement(target) THEN s
  ELSE pinPopup(analyzeElement(s, target, TRUE, fails))

\* CSSScanner.handleClick(event)
handleClick(s, target, fails) ==
  IF ~s.isScanning THEN s
  ELSE IF isPopupElement(target) THEN s
  ELSE IF s.isPinned THEN unpinPopup(s)
  ELSE pinPopup(analyzeElement(s, target, TRUE, fails))

\* A faulty handleKeyDown: Escape stops the scan even when the popup is pinned.
handleKeyDownAlwaysStops(s, key) ==
  IF s.isScanning /\ key = "Escape" THEN stopScan(s) ELSE s

\* CSSScanner.handleKeyDown(event)
handleKeyDown(s, key) ==
  IF ~s.isScanning THEN s
  ELSE IF key = "Escape"
       THEN IF s.isPinned THEN unpinPopup(s) ELSE stopScan(s)
       ELSE s

\* The close button of the popup (CSSScanner.setupPopupEvents)
closeButton(s) == closePopup(unpinPopup(s))

\* mouseleave on the popup (CSSScanner.setupPopupEvents)
popupMouseLeave(s) == IF ~s.isPinned THEN closePopup(s) ELSE s

\* ErrorHandler.recoverPopupRender once its delay is over: every popup element is
\* taken out of the page and a simple one is appended.
recoverPopupRender(s) ==
  [s EXCEPT !.popup.attached = FALSE, !.strayPopups = 1]

-----------------------------------------------------------------------------
(* EventHandler *)

hoverDebounceTime == 100
throttleLimit == 16

\* EventHandler.hoverTimeout: null or the id of the latest hover timer, which
\* may have run already
NoTimeout == "null"
SomeTimeout == "id"

\* clearTimeout(this.hoverTimeout)
clearTimeout(s) ==
  [s EXCEPT !.timers = SelectSeq(@, LAMBDA t : ~t.held)]

\* EventHandler.clearHoverTimeout()
clearHoverTimeout(s) ==
  IF s.hoverTimeout # NoTimeout
  THEN [clearTimeout(s) EXCEPT !.hoverTimeout = NoTimeout]
  ELSE s

\* this.hoverTimeout = setTimeout(callback, this.hoverDebounceTime)
setHoverTimeout(s, target) ==
  [s EXCEPT !.timers = Append([k \in DOMAIN @ |-> [@[k] EXCEPT !.held = FALSE]],
                              [kind |-> "hover", delay |-> hoverDebounceTime,
                               target |-> target, held |-> TRUE, old |-> FALSE]),
            !.hoverTimeout = SomeTimeout]

\* A faulty handleMouseOver: the pending timeout is not cleared first.
EventHandler_handleMouseOverNoClear(s, target) == setHoverTimeout(s, target)

\* EventHandler.handleMouseOver(event): the callback is put off by
\* hoverDebounceTime, replacing the one still waiting.
EventHandler_handleMouseOver(s, target) == setHoverTimeout(clearHoverTimeout(s), target)

\* A faulty handleMouseOut: the pending timeout is left alone.
EventHandler_handleMouseOutNoClear(s, target, relatedTarget) ==
  handleMouseOut(s, target, relatedTarget)

\* EventHandler.handleMouseOut(event)
EventHandler_handleMouseOut(s, target, relatedTarget) ==
  handleMouseOut(clearHoverTimeout(s), target, relatedTarget)

\* EventHandler.handleMouseMove(event)
EventHandler_handleMouseMove(s, target, point) ==
  handleMouseMove([s EXCEPT !.mousePosition = point], target)

\* A faulty throttle: a call inside the limit still records the pointer.
throttleRecordsPosition(s, target, point) ==
  IF s.inThrottle THEN [s EXCEPT !.mousePosition = point]
  ELSE setTimeout([EventHandler_handleMouseMove(s, target, point) EXCEPT !.inThrottle = TRUE],
                  "throttle", throttleLimit, NoNode)

\* The throttled handleMouseMove (EventHandler.throttle): a call inside the
\* limit is dropped.
throttle(s, target, point) ==
  IF s.inThrottle THEN s
  ELSE setTimeout([EventHandler_handleMouseMove(s, target, point) EXCEPT !.inThrottle = TRUE],
                  "throttle", throttleLimit, NoNode)

\* EventHandler.handleClick(event)
EventHandler_handleClick(s, target, fails) == handleClick(s, target, fails)

\* EventHandler.handleKeyDown(event)
EventHandler_handleKeyDown(s, key) == handleKeyDown(s, key)

-----------------------------------------------------------------------------
(* MessageHandler: the content script's end of chrome.runtime.onMessage.  A
   request is the message object, or null; the answer is the sequence of the
   sendResponse calls made. *)

NullRequest == [isObject |-> FALSE, action |-> "undefined", tabId |-> 0]

Request(action, tabId) == [isObject |-> TRUE, action |-> action, tabId |-> tabId]

Failure(error) == [success |-> FALSE, error |-> error]

\* The catch block of MessageHandler.handleMessage
MessageCallbackError(s, message) ==
  [state |-> [s EXCEPT !.errorCounts =
                HandleError(@, "MESSAGE_CALLBACK_ERROR", message).counts],
   responses |-> <<Failure(message)>>]

\* A faulty getScanStatus branch: asking for the status stops the scan.
getScanStatusStops(s) ==
  [state |-> stopScan(s), responses |-> <<[isScanning |-> s.isScanning]>>]

\* The getScanStatus branch with the callback CSSScanner.init binds,
\* () => this.isScanning
getScanStatus(s) == [state |-> s, responses |-> <<[isScanning |-> s.isScanning]>>]

\* A faulty handleMessage: the switch has no default branch.
MessageHandler_handleMessageNoDefault(s, request, callback) ==
  IF ~request.isObject THEN MessageCallbackError(s, "TypeError")
  ELSE IF request.action = "ping" THEN [state |-> s, responses |-> <<[pong |-> TRUE]>>]
  ELSE IF request.action \in {"toggleScan", "getScanStatus"} /\ callback = "none"
       THEN [state |-> s, responses |-> <<Failure("No callback")>>]
  ELSE IF request.action \in {"toggleScan", "getScanStatus"} /\ callback = "throws"
       THEN MessageCallbackError(s, "callback")
  ELSE IF request.action = "toggleScan"
       THEN [state |-> toggleScan(s),
             responses |-> <<[success |-> TRUE, isScanning |-> toggleScan(s).isScanning]>>]
  ELSE IF request.action = "getScanStatus"
       THEN [state |-> s, responses |-> <<[isScanning |-> s.isScanning]>>]
  ELSE [state |-> s, responses |-> << >>]

\* MessageHandler.handleMessage(request, sender, sendResponse).  `callback` says
\* what stands in this.callbacks: the functions CSSScanner.init binds ("bound"),
\* nothing ("none"), or functions that throw ("throws").
MessageHandler_handleMessage(s, request, callback) ==
  IF ~request.isObject THEN MessageCallbackError(s, "TypeError")
  ELSE IF request.action = "ping" THEN [state |-> s, responses |-> <<[pong |-> TRUE]>>]
  ELSE IF request.action = "toggleScan"
       THEN IF callback = "none"
            THEN [state |-> s, responses |-> <<Failure("No toggle callback")>>]
            ELSE IF callback = "throws" THEN MessageCallbackError(s, "callback")
            ELSE [state |-> toggleScan(s),
                  responses |-> <<[success |-> TRUE,
                                   isScanning |-> toggleScan(s).isScanning]>>]
  ELSE IF request.action = "getScanStatus"
       THEN IF callback = "none"
            THEN [state |-> s, responses |-> <<Failure("No status callback")>>]
            ELSE IF callback = "throws" THEN MessageCallbackError(s, "callback")
            ELSE getScanStatus(s)
  ELSE [state |-> s, responses |-> <<Failure("Unknown action")>>]

-----------------------------------------------------------------------------
(* BackgroundService: the service worker's end of chrome.runtime.onMessage.
   `env` says how the tab answers: the first ping, the injection, the ping
   after the injection. *)

\* How long a tab's result is served from BackgroundService.tabCache
tabCacheAge == 30000

\* BackgroundService.ensureContentScript(tabId) at time t
ensureContentScript(tabs, tabId, t, env) ==
  LET store(result) == [result |-> result,
                        tabs |-> MapSet(tabs, tabId, [result |-> result, timestamp |-> t])]
  IN IF tabId \in DOMAIN tabs /\ t - tabs[tabId].timestamp < tabCacheAge
     THEN [result |-> tabs[tabId].result, tabs |-> tabs]
     ELSE IF env.ping = "pong" THEN store([success |-> TRUE])
     ELSE IF env.inject = "fails" THEN store(Failure("Injection failed"))
     ELSE IF env.verify = "pong" THEN store([success |-> TRUE])
     ELSE IF env.verify = "other"
          THEN store(Failure("Content script injection verification failed"))
          ELSE store(Failure("Content script not responding after injection"))

\* BackgroundService.handleMessage(request, sender, sendResponse)
BackgroundService_handleMessage(tabs, request, t, env) ==
  IF ~request.isObject
  THEN [tabs |-> tabs, responses |-> <<Failure("TypeError")>>]
  ELSE IF request.action = "ensureContentScript"
       THEN [tabs |-> ensureContentScript(tabs, request.tabId, t, env).tabs,
             responses |-> <<ensureContentScript(tabs, request.tabId, t, env).result>>]
       ELSE [tabs |-> tabs, responses |-> <<Failure("Unknown action")>>]

\* ensureContentScript await by await.  A step gives the tab cache and the
\* worker record afterwards and the answer returned, if the call returns in it;
\* `attempted` tells whether the call has sent a ping or injected.
NoAnswer == [given |-> FALSE, result |-> Failure(""), attempted |-> FALSE]

\* this.tabCache.set(tabId, {result, timestamp: Date.now()}); return result
Conclude(tabs, w, i, tabId, t, result) ==
  [tabs |-> MapSet(tabs, tabId, [result |-> result, timestamp |-> t]),
   worker |-> [w EXCEPT !.flights = SubSeq(@, 1, i - 1) \o SubSeq(@, i + 1, Len(@))],
   answer |-> [given |-> TRUE, result |-> result, attempted |-> TRUE]]

\* The call goes on to its next await
Await(tabs, w, i, at) ==
  [tabs |-> tabs, worker |-> [w EXCEPT !.flights[i].at = at], answer |-> NoAnswer]

\* ensureContentScript up to its first await: a cached result younger than 30 s
\* is returned, else the ping is sent
ensureStart(tabs, w, tabId, t) ==
  IF tabId \in DOMAIN tabs /\ t - tabs[tabId].timestamp < tabCacheAge
  THEN [tabs |-> tabs, worker |-> w,
        answer |-> [given |-> TRUE, result |-> tabs[tabId].result, attempted |-> FALSE]]
  ELSE [tabs |-> tabs,
        worker |-> [w EXCEPT !.flights = Append(@, [tabId |-> tabId, at |-> "ping"])],
        answer |-> NoAnswer]

\* The first ping is answered {pong: true}, or it times out, fails or is
\* answered otherwise
ensurePinged(tabs, w, i, t, pong) ==
  IF pong THEN Conclude(tabs, w, i, w.flights[i].tabId, t, [success |-> TRUE])
  ELSE Await(tabs, w, i, "inject")

\* chrome.scripting.executeScript and insertCSS resolve or reject
ensureInjected(tabs, w, i, t, ok) ==
  IF ok
  THEN Await(tabs, [w EXCEPT !.loaded = TRUE, !.injections = @ + 1], i, "delay")
  ELSE Conclude(tabs, w, i, w.flights[i].tabId, t, Failure("Injection failed"))

\* The ping after the injection
ensureVerified(tabs, w, i, t, outcome) ==
  Conclude(tabs, w, i, w.flights[i].tabId, t,
           CASE outcome = "pong" -> [success |-> TRUE]
             [] outcome = "other" -> Failure("Content script injection verification failed")
             [] OTHER -> Failure("Content script not responding after injection"))

-----------------------------------------------------------------------------
(* PopupController: the control surface in the extension's popup.  The record
   holds the mirror (isScanning), the button (disabled, its class among
   loading/error/disabled as `look`, the class active, icon and text), the
   status line's type, the async functions under way with the await each is
   at (`flights`), and the pending 3 s restore timeouts. *)

\* PopupController.updateStatus(message, type)
updateStatus(c, type) == [c EXCEPT !.status = type]

\* PopupController.updateUI()
updateUI(c) ==
  IF c.isScanning
  THEN updateStatus([c EXCEPT !.active = TRUE, !.look = "normal",
                              !.text = "Stop Scan Mode"], "active")
  ELSE updateStatus([c EXCEPT !.active = FALSE, !.look = "normal",
                              !.text = "Start Scan Mode"], "normal")

\* PopupController.updateButtonState(state)
updateButtonState(c, state) ==
  LET c1 == [c EXCEPT !.disabled = FALSE, !.look = "normal"]
  IN CASE state = "loading" ->
            [c1 EXCEPT !.disabled = TRUE, !.look = "loading", !.icon = "hourglass",
                       !.text = "Loading..."]
       [] state = "error" ->
            [c1 EXCEPT !.look = "error", !.icon = "cross", !.text = "Error Occurred"]
       [] OTHER -> updateUI([c1 EXCEPT !.icon = "target"])

\* PopupController.disableButton()
disableButton(c) ==
  [c EXCEPT !.disabled = TRUE, !.look = "disabled", !.active = FALSE,
            !.icon = "forbidden", !.text = "Unavailable"]

\* The async function at flights[i] goes on to its next await
Proceed(c, i, at) == [c EXCEPT !.flights[i].at = at]

\* The async function at flights[i] returns
Return(c, i) ==
  [c EXCEPT !.flights = SubSeq(@, 1, i - 1) \o SubSeq(@, i + 1, Len(@))]

\* toggleScan's and checkCurrentTab's `if (!tab)` and `if (!prepared)` branches,
\* and checkCurrentTab's branch for an unsupported page
NotPrepared(c, i) ==
  IF c.flights[i].fn = "toggle"
  THEN Return(updateButtonState(updateStatus(c, "error"), "error"), i)
  ELSE Return(disableButton(updateStatus(c, "error")), i)

\* toggleScan's catch block: the error is shown and the restore is scheduled
ToggleCaught(c, i) ==
  [Return(updateButtonState(updateStatus(c, "error"), "error"), i)
     EXCEPT !.restoreTimers = @ + 1]

\* toggleScan and checkScanStatus take a well-formed answer
MirrorAnswer(c, i, answer) == Return(updateUI([c EXCEPT !.isScanning = answer]), i)

-----------------------------------------------------------------------------
(* The style cache on its own: lookups, clears and the periodic cleanup, with
   the clock moving over the instants around the 30 s age limit. *)

\* How many cleanup periods the clock runs over.
MaxPeriods == 3

TickOffsets == {0, 1}

TimePoints ==
  {t \in {k * cleanupInterval + o : k \in 0..MaxPeriods, o \in TickOffsets} :
     t <= MaxPeriods * cleanupInterval + 1}

\* The elements looked up in the cache-only specification.
CacheElements == {"A", "B"}

\* The elements the page restyles.
MutableElements == {"A"}

CacheInit ==
  /\ now = 0
  /\ cache = EmptyMap
  /\ selectorCache = EmptyMap
  /\ lastClearTime = 0
  /\ nextCleanup = cleanupInterval
  /\ pageStyle = [e \in Elements |-> StyleFlex]
  /\ lastGet = NoCall

SelectorInit ==
  /\ highlightedElement = NoNode
  /\ lastHoverElement = NoNode
  /\ marked = {}

\* StyleCache.getComputedStyle(e), the platform answering or throwing
CacheGet(e, throws) ==
  \E r \in {StyleLookup(cache, e, now, pageStyle[e], throws)} :
     /\ cache' = r.cache
     /\ lastGet' = GetRecord(e, r, cache, lastGet)
     /\ UNCHANGED <<now, selectorCache, lastClearTime, nextCleanup, pageStyle, notCacheVars>>

\* StyleCache.clear()
CacheClear ==
  /\ cache' = EmptyMap
  /\ selectorCache' = EmptyMap
  /\ lastClearTime' = now
  /\ UNCHANGED <<now, nextCleanup, pageStyle, lastGet, notCacheVars>>

\* The setInterval callback of CSSScanner.init: StyleCache.periodicCleanup()
CachePeriodicCleanup ==
  /\ now = nextCleanup
  /\ nextCleanup' = nextCleanup + cleanupInterval
  /\ IF now - lastClearTime > cleanupAge
     THEN /\ cache' = EmptyMap
          /\ selectorCache' = EmptyMap
          /\ lastClearTime' = now
     ELSE UNCHANGED <<cache, selectorCache, lastClearTime>>
  /\ UNCHANGED <<now, pageStyle, lastGet, notCacheVars>>

\* The page restyles an element.
PageMutate(e, st) ==
  /\ pageStyle[e] # st
  /\ pageStyle' = [pageStyle EXCEPT ![e] = st]
  /\ UNCHANGED <<now, cache, selectorCache, lastClearTime, nextCleanup, lastGet,
                 notCacheVars>>

\* Time passes, never beyond a due interval callback.
CacheTick(t) ==
  /\ t > now
  /\ t <= nextCleanup
  /\ now' = t
  /\ UNCHANGED <<cache, selectorCache, lastClearTime, nextCleanup, pageStyle, lastGet,
                 notCacheVars>>

CacheNext ==
  \/ \E e \in CacheElements, throws \in BOOLEAN : CacheGet(e, throws)
  \/ CacheClear
  \/ CachePeriodicCleanup
  \/ \E e \in MutableElements, st \in PageStyles : PageMutate(e, st)
  \/ \E t \in TimePoints : CacheTick(t)

NoCopy == [called |-> FALSE, data |-> DegradedInfo("B", {}), type |-> "selector",
           env |-> [api |-> "ok", exec |-> TRUE], raised |-> FALSE, error |-> "",
           label |-> "", text |-> EmptyStr, apiCalls |-> 0, execCalls |-> 0,
           recovered |-> FALSE, board |-> [set |-> FALSE, text |-> EmptyStr]]

CopyInit ==
  /\ errorCounts = EmptyMap
  /\ clipboard = [set |-> FALSE, text |-> EmptyStr]
  /\ lastCopy = NoCopy

\* The pointer-overs delivered since the hover callback last ran or was
\* cancelled: how many, the last one's target, and whether the callback of an
\* event delivered after it has run already.
NoTrail == [count |-> 0, last |-> NoNode, passed |-> FALSE]

\* The page event just delivered, if the step was one.
NoEvent == [kind |-> "none", acts |-> FALSE, pending |-> FALSE, from |-> NoPosition,
            point |-> NoPosition, dropped |-> FALSE, key |-> "", wasPinned |-> FALSE,
            target |-> NoNode, related |-> NoNode]

NotFired == [fired |-> FALSE, target |-> NoNode, trail |-> NoTrail, was |-> NoNode,
             old |-> FALSE]

ScanInit ==
  /\ isScanning = FALSE
  /\ currentElementData = NoData
  /\ popup = NoPopup
  /\ strayPopups = 0
  /\ isPinned = FALSE
  /\ pinnedPosition = NoPinnedPosition
  /\ renderAnimationFrame = FALSE
  /\ mousePosition = <<0, 0>>
  /\ hoverTimeout = NoTimeout
  /\ inThrottle = FALSE
  /\ listening = FALSE
  /\ timers = << >>
  /\ hoverTrail = NoTrail
  /\ lastFired = NotFired
  /\ lastEvent = NoEvent

\* No message yet
NoMessage == [service |-> "none", request |-> NullRequest, callback |-> "none",
              responses |-> << >>, wasScanning |-> FALSE]

MessageInit ==
  /\ tabCache = EmptyMap
  /\ lastMessage = NoMessage

\* No operation applied on its own yet
NoCallYet == [op |-> "none", input |-> << >>, result |-> << >>]

\* PopupController's constructor: the mirror is off, the button as the page
\* gives it, no toggle under way
ControlInit ==
  /\ controller = [isScanning |-> FALSE, disabled |-> FALSE, look |-> "normal",
                   active |-> FALSE, icon |-> "target", text |-> "Start Scan Mode",
                   status |-> "normal",
                   flights |-> <<[fn |-> "check", at |-> "query"]>>,
                   restoreTimers |-> 0]
  /\ lastCall = NoCallYet

\* BackgroundService's constructor, and a tab whose page has no content script
WorkerInit ==
  worker = [flights |-> << >>, open |-> TRUE, loaded |-> FALSE, injections |-> 0]

Init ==
  CacheInit /\ SelectorInit /\ CopyInit /\ ScanInit /\ MessageInit /\ ControlInit
    /\ WorkerInit

SpecCache == Init /\ [][CacheNext]_vars

\* C2: getComputedStyle never returns a snapshot whose age (now minus its creation
\* timestamp) exceeds the 30 s max age.
C2_NoStaleSnapshot ==
  lastGet.called /\ ~lastGet.threw => lastGet.age <= maxCacheAge

\* C2 witness: an entry older than the max age was found, and what came back was
\* recomputed at this instant.
C2_Witness ==
  /\ lastGet.called /\ ~lastGet.threw
  /\ lastGet.hadEntry /\ lastGet.entryAge > maxCacheAge
  /\ lastGet.queries = 1 /\ lastGet.age = 0

\* C3 (as amended): a call made less than 30 s after the element's cached snapshot
\* was created, the snapshot not cleared since, returns that snapshot's mapping
\* (the one the call before returned) without asking the platform; a call made more
\* than 30 s after the snapshot was created asks the platform again.
C3_FreshHitStaleRequery ==
  lastGet.called =>
    /\ lastGet.hadEntry /\ lastGet.entryAge < maxCacheAge =>
         /\ lastGet.queries = 0
         /\ lastGet.style = lastGet.entryStyle
         /\ lastGet.gap >= 0 => lastGet.style = lastGet.prevStyle
    /\ lastGet.hadEntry /\ lastGet.entryAge > maxCacheAge => lastGet.queries = 1

\* C3 witness: a second call on the element, within 30 s of the snapshot, answered
\* from the cache although the page has restyled the element meanwhile.
C3_Witness ==
  /\ lastGet.called /\ lastGet.gap > 0
  /\ lastGet.hadEntry /\ lastGet.entryAge < maxCacheAge
  /\ lastGet.queries = 0
  /\ lastGet.style # cacheImportantProperties(pageStyle[lastGet.e])

\* C3 as stated: two calls on an element less than 30 s apart (both answered by
\* the platform or the cache, neither failing) return the same mapping and the
\* second does not ask the platform.
C3_Original ==
  /\ lastGet.called /\ ~lastGet.threw /\ ~lastGet.prevThrew
  /\ lastGet.gap >= 0 /\ lastGet.gap < maxCacheAge
  => lastGet.queries = 0 /\ lastGet.style = lastGet.prevStyle

-----------------------------------------------------------------------------
(* The clipboard writer on its own: copyToClipboard applied to the results the
   analyzer can produce, under every clipboard the platform can offer. *)

\* How many failed copies are followed.
MaxErrorCount == 4

CopyErrorMessages == {"No inline styles found.", "No CSS content to copy.", "Copy failed."}

RECURSIVE SumCounts(_, _)
SumCounts(counts, messages) ==
  IF messages = {} THEN 0
  ELSE LET m == CHOOSE x \in messages : TRUE
       IN ErrorCount(counts, "CLIPBOARD_WRITE_FAILED", m) + SumCounts(counts, messages \ {m})

\* The inspection results copied: what extractCSSInfo answers for a hovered
\* element (carrying the highlight class) under each page style, and its
\* degraded answer.
CopyInputs ==
  {CssInfo("A", {"A"}, cacheImportantProperties(st), generateOptimizedSelector("A", {"A"})) :
     st \in PageStyles}
  \cup {DegradedInfo("B", {"B"})}

\* ClipboardManager.copyToClipboard(data, type) under clipboard `env`
Copy(data, type, env) ==
  \E r \in {copyToClipboard(data, type, env, errorCounts, clipboard)} :
     /\ SumCounts(r.counts, CopyErrorMessages) <= MaxErrorCount
     /\ errorCounts' = r.counts
     /\ clipboard' = r.clipboard
     /\ lastCopy' = [called |-> TRUE, data |-> data, type |-> type, env |-> env,
                     raised |-> r.raised, error |-> r.error, label |-> r.label,
                     text |-> r.text, apiCalls |-> r.apiCalls, execCalls |-> r.execCalls,
                     recovered |-> r.recovered, board |-> r.clipboard]
     /\ UNCHANGED notCopyVars

CopyNext ==
  \E data \in CopyInputs, type \in CopyTypes, env \in ClipboardEnvs : Copy(data, type, env)

SpecCopy == Init /\ [][CopyNext]_vars

\* The values declared in a CSS text: what stands between ": " and ";"
DeclaredValues(text) ==
  {SubSeq(text, i + 2, j - 1) :
     <<i, j>> \in {ij \in (DOMAIN text) \X (DOMAIN text) :
                     /\ text[ij[1]] = ":" /\ ij[1] < ij[2] /\ text[ij[2]] = ";"
                     /\ \A k \in (ij[1] + 1)..(ij[2] - 1) : text[k] # ";"}}

\* C4: no property whose value is in the uninteresting set appears in the
\* categorized view of a result nor in the CSS text built for the copy modes all,
\* computed and inline.
C4_Original ==
  lastCopy.called =>
    /\ \A c \in DOMAIN lastCopy.data.categorized :
         \A q \in DOMAIN lastCopy.data.categorized[c] :
           lastCopy.data.categorized[c][q] \notin invalidValues
    /\ lastCopy.type \in {"all", "computed", "inline"} =>
         DeclaredValues(lastCopy.text) \cap invalidValues = {}

\* C5: copyToClipboard(result, 'inline') on a result with no inline styles raises
\* and invokes neither the clipboard API nor the textarea/execCommand copy, the
\* error handler's recovery included.
C5_Original ==
  lastCopy.called /\ lastCopy.type = "inline" /\ DOMAIN lastCopy.data.inline = {} =>
    lastCopy.raised /\ lastCopy.apiCalls = 0 /\ lastCopy.execCalls = 0

\* A clipboard that can be written: the API resolves or execCommand succeeds
Writable(env) == env.api = "ok" \/ env.exec

\* C6: copyToClipboard(result, 'selector') on a result whose selector is a non-empty
\* string, with a writable clipboard, succeeds and writes exactly the selector,
\* whatever the computed, inline and categorized maps hold.
C6_SelectorCopy ==
  /\ lastCopy.called /\ lastCopy.type = "selector"
  /\ SelectorProperty(lastCopy.data.element) # EmptyStr
  /\ Writable(lastCopy.env)
  => /\ ~lastCopy.raised
     /\ lastCopy.label = "Selector"
     /\ lastCopy.board = [set |-> TRUE, text |-> SelectorProperty(lastCopy.data.element)]

\* C6 witness: a degraded result (all three style maps empty) whose selector was
\* copied.
C6_Witness ==
  /\ lastCopy.called /\ lastCopy.type = "selector" /\ ~lastCopy.raised
  /\ DOMAIN lastCopy.data.computed = {} /\ DOMAIN lastCopy.data.inline = {}
  /\ DOMAIN lastCopy.data.categorized = {}
  /\ lastCopy.board = [set |-> TRUE, text |-> S("unknown")]

-----------------------------------------------------------------------------
(* The scanner as a whole: the page's events, the popup's own events, the
   timers and the recovery of a failed render.  Time enters through the order
   in which pending timers may run: a timer runs before every timer created
   after it with an equal or longer delay. *)

\* Bounds
MaxTrail == 3
MaxTimers == 3
MaxRenderFailures == 1
MaxInspectFailures == 2

MousePoints == {<<300, 300>>}

Keys == {"Escape", "a"}

\* Some popup element is in the page
PopupInPage == popup.attached \/ strayPopups > 0

\* The elements the pointer visits
ScanElements == {"A", "B"}

\* What an event can hit: an element of the page or, when a popup is there, the
\* inside of a popup
Targets == ScanElements \cup (IF PopupInPage THEN {PopupNode} ELSE {})

HoverPending == \E k \in DOMAIN timers : timers[k].kind = "hover"

RenderBudget(fails) ==
  fails => ErrorCount(errorCounts, "POPUP_RENDER_FAILED", "render") < MaxRenderFailures

InspectBudget(target) ==
  TagNameKind(target) # "string" =>
    ErrorCount(errorCounts, "CSS_ANALYSIS_FAILED", "TypeError") < MaxInspectFailures

\* The callback of an event delivered after the pending pointer-over has run.
Overtaken(trail) == [trail EXCEPT !.passed = @ \/ HoverPending]

Observe(trail, fired, event) ==
  /\ hoverTrail' = trail
  /\ lastFired' = fired
  /\ lastEvent' = event
  /\ lastMessage' = NoMessage
  /\ UNCHANGED <<clipboard, lastCopy, tabCache, controlVars>>

\* TOGGLE_SCAN from the extension's popup (MessageHandler -> CSSScanner.toggleScan)
ToggleScan ==
  /\ Commit(toggleScan(State))
  /\ Observe(hoverTrail, NotFired, NoEvent)

\* mouseover on the document
MouseOver(target) ==
  /\ listening
  /\ hoverTrail.count < MaxTrail
  /\ Len(timers) < MaxTimers \/ HoverPending
  /\ Commit(EventHandler_handleMouseOver(State, target))
  /\ Observe([count |-> hoverTrail.count + 1, last |-> target, passed |-> FALSE],
             NotFired, [NoEvent EXCEPT !.kind = "over"])

\* CSSScanner.handleMouseOut gets past its early returns
OutActs(target, relatedTarget) ==
  /\ isScanning /\ ~isPopupElement(target) /\ ~isPinned
  /\ ~(/\ relatedTarget \in Nodes
       /\ \/ IsAncestorOrSelf(target, relatedTarget)
          \/ IsAncestorOrSelf(relatedTarget, target))

\* mouseout on the document
MouseOut(target, relatedTarget) ==
  /\ listening
  /\ Len(timers) < MaxTimers
  /\ \E r \in {EventHandler_handleMouseOut(State, target, relatedTarget)} :
       Commit(IF OutActs(target, relatedTarget) /\ r.popup.exists
              THEN [r EXCEPT !.popup.sinceOut = FALSE] ELSE r)
  /\ Observe(NoTrail, NotFired,
             [NoEvent EXCEPT !.kind = "out", !.acts = OutActs(target, relatedTarget),
                             !.pending = HoverPending, !.target = target,
                             !.related = relatedTarget])

\* The move gets through the throttle and CSSScanner.handleMouseMove repositions
MoveActs(target) ==
  ~inThrottle /\ isScanning /\ popup.exists /\ ~isPinned /\ ~isPopupElement(target)

\* mousemove on the document
MouseMove(target, point) ==
  /\ listening
  /\ Len(timers) < MaxTimers
  /\ Commit(throttle(State, target, point))
  /\ Observe(IF inThrottle THEN hoverTrail ELSE Overtaken(hoverTrail), NotFired,
             [NoEvent EXCEPT !.kind = "move", !.acts = MoveActs(target),
                             !.dropped = inThrottle, !.from = popup.pos,
                             !.point = point])

\* click on the document
Click(target, fails) ==
  /\ listening
  /\ Len(timers) < MaxTimers
  /\ RenderBudget(fails)
  /\ InspectBudget(target)
  /\ Commit(EventHandler_handleClick(State, target, fails))
  /\ Observe(Overtaken(hoverTrail), NotFired,
             [NoEvent EXCEPT !.kind = "click", !.target = target])

\* keydown on the document
KeyDown(key) ==
  /\ listening
  /\ Commit(EventHandler_handleKeyDown(State, key))
  /\ Observe(Overtaken(hoverTrail), NotFired,
             [NoEvent EXCEPT !.kind = "key", !.key = key, !.wasPinned = isPinned])

\* A pending timer may run when no timer created before it has an equal or
\* shorter delay.
MayRun(i) == \A j \in 1..(i - 1) : timers[j].delay > timers[i].delay

Without(i) == [State EXCEPT !.timers = SubSeq(@, 1, i - 1) \o SubSeq(@, i + 1, Len(@))]

\* The debounced hover callback runs.
HoverTimer(i, fails) ==
  /\ i \in DOMAIN timers /\ timers[i].kind = "hover" /\ MayRun(i)
  /\ Len(timers) <= MaxTimers
  /\ RenderBudget(fails)
  /\ InspectBudget(timers[i].target)
  /\ Commit(handleMouseOver(Without(i), timers[i].target, fails))
  /\ Observe(NoTrail, [fired |-> TRUE, target |-> timers[i].target, trail |-> hoverTrail,
                       was |-> highlightedElement, old |-> timers[i].old],
             NoEvent)

\* The callback handleMouseOut left behind runs.
GraceTimer(i, strayHit) ==
  /\ i \in DOMAIN timers /\ timers[i].kind = "grace" /\ MayRun(i)
  /\ Commit(graceClose(Without(i), strayHit))
  /\ Observe(hoverTrail, NotFired, [NoEvent EXCEPT !.kind = "grace"])

\* The throttle's limit is over.
ThrottleTimer(i) ==
  /\ i \in DOMAIN timers /\ timers[i].kind = "throttle" /\ MayRun(i)
  /\ Commit([Without(i) EXCEPT !.inThrottle = FALSE])
  /\ Observe(hoverTrail, NotFired, NoEvent)

\* recoverPopupRender's delay is over.
RecoverTimer(i) ==
  /\ i \in DOMAIN timers /\ timers[i].kind = "recover" /\ MayRun(i)
  /\ Commit(recoverPopupRender(Without(i)))
  /\ Observe(hoverTrail, NotFired, NoEvent)

\* The frame PopupManager.scheduleRender asked for
AnimationFrame ==
  /\ renderAnimationFrame
  /\ Commit([State EXCEPT !.renderAnimationFrame = FALSE,
                          !.popup.show = IF popup.exists THEN TRUE ELSE @])
  /\ Observe(hoverTrail, NotFired, NoEvent)

\* click on the popup's close button
PopupCloseButton ==
  /\ popup.exists /\ popup.attached
  /\ Commit(closeButton(State))
  /\ Observe(hoverTrail, NotFired, NoEvent)

\* mouseenter on the popup
PopupMouseEnter ==
  /\ popup.exists /\ popup.attached
  /\ Commit(clearHoverTimeout(State))
  /\ Observe(NoTrail, NotFired, NoEvent)

\* mouseleave on the popup
PopupMouseLeave ==
  /\ popup.exists /\ popup.attached
  /\ Commit(popupMouseLeave(State))
  /\ Observe(hoverTrail, NotFired, NoEvent)

\* The Close button of the simple popup recoverPopupRender appended
StrayPopupClose ==
  /\ strayPopups > 0
  /\ Commit([State EXCEPT !.strayPopups = 0])
  /\ Observe(hoverTrail, NotFired, NoEvent)

\* click on a copy button of the popup (CSSScanner.setupPopupEvents)
CopyButton(type, env) ==
  /\ popup.exists /\ popup.attached
  /\ \E r \in {copyToClipboard(currentElementData, type, env, errorCounts, clipboard)} :
       /\ SumCounts(r.counts, CopyErrorMessages) <= MaxErrorCount
       /\ errorCounts' = r.counts
       /\ clipboard' = r.clipboard
       /\ lastCopy' = [called |-> TRUE, data |-> currentElementData, type |-> type,
                       env |-> env, raised |-> r.raised, error |-> r.error,
                       label |-> r.label, text |-> r.text, apiCalls |-> r.apiCalls,
                       execCalls |-> r.execCalls, recovered |-> r.recovered,
                       board |-> r.clipboard]
  /\ UNCHANGED <<cacheVars, selectorVars, isScanning, currentElementData, popup,
                 strayPopups, isPinned, pinnedPosition, renderAnimationFrame,
                 mousePosition, hoverTimeout, inThrottle, listening, timers,
                 hoverTrail, lastFired, lastEvent, messageVars, controlVars>>

\* How often a message handler's error is let happen
MaxMessageErrors == 1

\* A runtime message reaches the content script.
Message(request, callback) ==
  /\ callback = "throws" /\ request.action \in {"toggleScan", "getScanStatus"}
       => ErrorCount(errorCounts, "MESSAGE_CALLBACK_ERROR", "callback") < MaxMessageErrors
  /\ ~request.isObject
       => ErrorCount(errorCounts, "MESSAGE_CALLBACK_ERROR", "TypeError") < MaxMessageErrors
  /\ \E r \in {MessageHandler_handleMessage(State, request, callback)} :
       /\ Commit(r.state)
       /\ lastMessage' = [service |-> "content", request |-> request,
                          callback |-> callback, responses |-> r.responses,
                          wasScanning |-> isScanning]
  /\ hoverTrail' = hoverTrail
  /\ lastFired' = NotFired
  /\ lastEvent' = NoEvent
  /\ UNCHANGED <<clipboard, lastCopy, tabCache, controlVars>>

\* A runtime message reaches the service worker.
BackgroundMessage(request, env) ==
  /\ \E r \in {BackgroundService_handleMessage(tabCache, request, now, env)} :
       /\ tabCache' = r.tabs
       /\ lastMessage' = [service |-> "background", request |-> request,
                          callback |-> "none", responses |-> r.responses,
                          wasScanning |-> isScanning]
  /\ lastFired' = NotFired
  /\ lastEvent' = NoEvent
  /\ UNCHANGED <<cacheVars, selectorVars, copyVars, isScanning, currentElementData, popup,
                 strayPopups, isPinned, pinnedPosition, renderAnimationFrame,
                 mousePosition, hoverTimeout, inThrottle, listening, timers,
                 hoverTrail, controlVars>>

Next ==
  \/ ToggleScan
  \/ \E target \in Targets : MouseOver(target)
  \/ \E target \in Targets, relatedTarget \in Targets \cup {NoNode} :
       MouseOut(target, relatedTarget)
  \/ \E target \in Targets, point \in MousePoints : MouseMove(target, point)
  \/ \E target \in Targets : Click(target, FALSE)
  \/ \E key \in Keys : KeyDown(key)
  \/ \E i \in 1..MaxTimers : HoverTimer(i, FALSE)
  \/ \E i \in 1..MaxTimers : GraceTimer(i, FALSE)
  \/ \E i \in 1..MaxTimers : ThrottleTimer(i)
  \/ AnimationFrame
  \/ PopupCloseButton
  \/ PopupMouseEnter
  \/ PopupMouseLeave

Spec == Init /\ [][Next]_vars

\* Renders that fail and their recovery.
RecoveryNext ==
  \/ ToggleScan
  \/ \E target \in Targets : MouseOver(target)
  \/ \E target \in Targets, relatedTarget \in Targets \cup {NoNode} :
       MouseOut(target, relatedTarget)
  \/ \E target \in Targets, fails \in BOOLEAN : Click(target, fails)
  \/ \E key \in Keys : KeyDown(key)
  \/ \E i \in 1..MaxTimers, fails \in BOOLEAN : HoverTimer(i, fails)
  \/ \E i \in 1..MaxTimers, strayHit \in BOOLEAN : GraceTimer(i, strayHit)
  \/ \E i \in 1..MaxTimers : RecoverTimer(i)
  \/ AnimationFrame
  \/ PopupCloseButton
  \/ StrayPopupClose

SpecRecovery == Init /\ [][RecoveryNext]_vars

\* The pointer wandering over the page's elements and the popup: overs, outs
\* and the timers they leave behind.
HoverTargets == Elements \cup (IF PopupInPage THEN {PopupNode} ELSE {})

HoverNext ==
  \/ ToggleScan
  \/ \E target \in HoverTargets : MouseOver(target)
  \/ \E target \in HoverTargets, relatedTarget \in HoverTargets \cup {NoNode} :
       MouseOut(target, relatedTarget)
  \/ \E i \in 1..MaxTimers : HoverTimer(i, FALSE)
  \/ \E i \in 1..MaxTimers : GraceTimer(i, FALSE)
  \/ AnimationFrame
  \/ PopupMouseEnter
  \/ PopupMouseLeave

SpecHover == Init /\ [][HoverNext]_vars

\* Inspecting by click and copying from the popup's buttons.
ButtonEnvs == {[api |-> "ok", exec |-> TRUE], [api |-> "absent", exec |-> TRUE]}

ButtonsNext ==
  \/ ToggleScan
  \/ \E target \in Elements : Click(target, FALSE)
  \/ \E type \in CopyTypes, env \in ButtonEnvs : CopyButton(type, env)
  \/ PopupCloseButton

SpecButtons == Init /\ [][ButtonsNext]_vars

\* Inspections and renders that fail: the pointer over div#a and over a form
\* whose tagName is a control, with the platform throwing in showPopup or not.
FaultTargets == {"A", Form}

FaultsNext ==
  \/ ToggleScan
  \/ \E target \in FaultTargets : MouseOver(target)
  \/ \E target \in FaultTargets, fails \in BOOLEAN : Click(target, fails)
  \/ \E target \in FaultTargets, point \in MousePoints : MouseMove(target, point)
  \/ \E key \in Keys : KeyDown(key)
  \/ \E i \in 1..MaxTimers, fails \in BOOLEAN : HoverTimer(i, fails)
  \/ \E i \in 1..MaxTimers : ThrottleTimer(i)
  \/ \E i \in 1..MaxTimers : RecoverTimer(i)

SpecFaults == Init /\ [][FaultsNext]_vars

\* The pointer moving between two places of the page, with clicks and keys.
MovePoints == {<<300, 300>>, <<700, 500>>}

ThrottleNext ==
  \/ ToggleScan
  \/ \E target \in Targets, point \in MovePoints : MouseMove(target, point)
  \/ \E target \in Targets : Click(target, FALSE)
  \/ \E key \in Keys : KeyDown(key)
  \/ \E i \in 1..MaxTimers : ThrottleTimer(i)
  \/ AnimationFrame

SpecThrottle == Init /\ [][ThrottleNext]_vars

\* The messages of the extension's popup to the content script and to the
\* service worker, between clicks and keys.
Tabs == {1}

Requests ==
  {NullRequest}
    \cup {Request(action, 0) : action \in {"ping", "toggleScan", "getScanStatus",
                                           "undefined", "reload"}}
    \cup {Request("ensureContentScript", tabId) : tabId \in Tabs}

Callbacks == {"bound", "none", "throws"}

TabEnvs == [ping : {"pong", "silent"}, inject : {"ok", "fails"},
            verify : {"pong", "other", "silent"}]

MessagesNext ==
  \/ \E request \in Requests, callback \in Callbacks : Message(request, callback)
  \/ \E target \in ScanElements : Click(target, FALSE)
  \/ \E key \in Keys : KeyDown(key)
  \/ PopupCloseButton
  \/ \E request \in Requests, env \in TabEnvs : BackgroundMessage(request, env)

SpecMessages == Init /\ [][MessagesNext]_vars

-----------------------------------------------------------------------------
(* Operations applied on their own, to arguments drawn from small sets: the
   popup's placement, the selector, the extraction and the error handler. *)

\* What such a call leaves alone
notCallVars == <<cacheVars, selectorVars, clipboard, lastCopy, scanVars, messageVars,
                 controller, worker>>

\* window.innerWidth x window.innerHeight: a desktop window, a smaller one, and
\* one narrower than the popup
PlaceViewports ==
  {[width |-> 1000, height |-> 700], [width |-> 800, height |-> 600],
   [width |-> 390, height |-> 500]}

\* getBoundingClientRect of the popup: short, at its max-height, or empty
PlaceRects ==
  {[width |-> 380, height |-> 300], [width |-> 380, height |-> 500],
   [width |-> 0, height |-> 0]}

\* Cursor positions inside the viewport
PlacePoints(viewport) ==
  {<<x, y>> : x \in {0, 200, 400, 500, 900} \cap 0..(viewport.width - 1),
              y \in {0, 150, 300, 450, 600} \cap 0..(viewport.height - 1)}

\* PopupManager.updatePopupPosition computes a position
Place(mouse, rect, viewport) ==
  /\ lastCall' = [op |-> "position",
                  input |-> [mouse |-> mouse, rect |-> rect, viewport |-> viewport],
                  result |-> BestPositionIn(mouse, rect, viewport)]
  /\ UNCHANGED <<notCallVars, errorCounts>>

\* How often an error of one kind and message is let happen
MaxOccurrences == 5

\* The elements handed to the analyzer: elements of the page, no element, and
\* the nodes whose tagName is no string
ExtractElements == {"A", "C", NoNode, Form, Document}

\* What StyleCache.getComputedStyle answers: a kept style, or {} after a failure
ExtractStyles == {cacheImportantProperties(st) : st \in PageStyles} \cup {EmptyMap}

\* CSSAnalyzer.extractCSSInfo(element) on a highlighted element
Extract(element, computedStyle) ==
  \E r \in {extractCSSInfo(element, computedStyle,
                            generateOptimizedSelector(element, {element}), {element},
                            errorCounts)} :
     /\ \A k \in DOMAIN r.counts : r.counts[k] <= MaxOccurrences
     /\ errorCounts' = r.counts
     /\ lastCall' = [op |-> "extract",
                     input |-> [element |-> element, computedStyle |-> computedStyle],
                     result |-> [raised |-> r.raised, info |-> r.info,
                                 failed |-> r.counts # errorCounts]]
     /\ UNCHANGED notCallVars

\* The kinds of error reported to the handler here
ReportedTypes == {"CSS_ANALYSIS_FAILED", "EVENT_HANDLER_ERROR"}

\* ErrorHandler.handleError(error, errorType) on an error with message "TypeError"
ErrorOccurs(type) ==
  \E r \in {HandleError(errorCounts, type, "TypeError")} :
     /\ ErrorCount(errorCounts, type, "TypeError") < MaxOccurrences
     /\ errorCounts' = r.counts
     /\ lastCall' = [op |-> "error",
                     input |-> [type |-> type, message |-> "TypeError"],
                     result |-> [suppressed |-> r.suppressed, attempted |-> r.attempted,
                                 reported |-> r.reported]]
     /\ UNCHANGED notCallVars

\* The nodes a selector is asked for: the page's nodes, no element, and the
\* nodes whose tagName is no string
SelectNodes == Nodes \cup {NoNode, Form, Document}

\* StyleCache.generateOptimizedSelector(element), the element highlighted or not
Select(element, mk) ==
  /\ lastCall' = [op |-> "select",
                  input |-> [element |-> element, marked |-> mk],
                  result |-> generateOptimizedSelector(element, mk)]
  /\ UNCHANGED <<notCallVars, errorCounts>>

\* The snapshots handed to categorizeStyles: the page's styles as the platform
\* and as the cache have them, {} after a failed lookup, and one with a padded
\* keyword, an empty value and a property of no category
CategorizeStyles ==
  PageStyles \cup {cacheImportantProperties(st) : st \in PageStyles} \cup {EmptyMap}
    \cup {[p \in {"display", "margin", "opacity", "cursor", "color"} |->
             CASE p = "display" -> S("block") [] p = "margin" -> <<" ", "auto", " ">>
               [] p = "opacity" -> EmptyStr [] p = "cursor" -> S("pointer")
               [] OTHER -> <<" ", "red">>]}

\* CSSAnalyzer.categorizeStyles(computedStyle)
Categorize(computedStyle) ==
  /\ lastCall' = [op |-> "categorize", input |-> computedStyle,
                  result |-> categorizeStyles(computedStyle)]
  /\ UNCHANGED <<notCallVars, errorCounts>>

CallsNext ==
  \/ \E viewport \in PlaceViewports, rect \in PlaceRects :
       \E mouse \in PlacePoints(viewport) : Place(mouse, rect, viewport)
  \/ \E computedStyle \in CategorizeStyles : Categorize(computedStyle)
  \/ \E element \in SelectNodes :
       \E mk \in {{}, {element} \cap Nodes} : Select(element, mk)

\* The analyzer and the error handler called again and again
ErrorsNext ==
  \/ \E element \in ExtractElements, computedStyle \in ExtractStyles :
       Extract(element, computedStyle)
  \/ \E type \in ReportedTypes : ErrorOccurs(type)

SpecErrors == Init /\ [][ErrorsNext]_vars

SpecCalls == Init /\ [][CallsNext]_vars

-----------------------------------------------------------------------------
(* The control surface at work: the popup's own check, clicks on the button,
   the answers of the tab and of the service worker, and the restore timeout.
   Each await of an async function is a step. *)

\* How many async functions and restore timeouts are under way at once
MaxFlights == 2

\* The active tab's id
ActiveTab == CHOOSE tabId \in Tabs : TRUE

\* A control step is observed
Controlled(c, fn, step, outcome) ==
  /\ controller' = c
  /\ worker' = worker
  /\ lastCall' = [op |-> "control", input |-> [fn |-> fn, step |-> step],
                  result |-> outcome]

\* What a control step that does not reach the page leaves alone
notControlVars == <<cacheVars, selectorVars, copyVars, scanVars, lastMessage>>

\* A click on the scan button: toggleScan() up to its first await
ControllerClick ==
  /\ ~controller.disabled
  /\ Len(controller.flights) + controller.restoreTimers < MaxFlights
  /\ Controlled([updateButtonState(controller, "loading") EXCEPT
                   !.flights = Append(@, [fn |-> "toggle", at |-> "query"])],
                "toggle", "click", "loading")
  /\ UNCHANGED <<notControlVars, tabCache>>

\* chrome.tabs.query answers: no tab, a page the scanner is not for, or a tab
TabQuery(i, outcome) ==
  /\ i \in DOMAIN controller.flights
  /\ \E f \in {controller.flights[i]} :
       /\ f.at \in {"query", "statusquery"}
       /\ outcome = "unsupported" => f.fn = "check" /\ f.at = "query"
       /\ Controlled(IF f.at = "statusquery"
                     THEN IF outcome = "none" THEN Return(controller, i)
                          ELSE Proceed(controller, i, "status")
                     ELSE IF outcome = "tab" THEN Proceed(controller, i, "ping")
                          ELSE NotPrepared(controller, i),
                     f.fn, f.at, outcome)
  /\ UNCHANGED <<notControlVars, tabCache>>

\* prepareContentScript's ping is answered by the content script or rejects
Ping(i, delivered) ==
  /\ i \in DOMAIN controller.flights
  /\ \E f \in {controller.flights[i]} :
       /\ f.at = "ping"
       /\ \E r \in {MessageHandler_handleMessage(State, Request("ping", ActiveTab),
                                                  "bound")} :
            Controlled(IF delivered /\ r.responses = <<[pong |-> TRUE]>>
                       THEN Proceed(controller, i,
                                    IF f.fn = "toggle" THEN "send" ELSE "statusquery")
                       ELSE Proceed(controller, i, "ensure"),
                       f.fn, f.at, IF delivered THEN "pong" ELSE "rejected")
  /\ UNCHANGED <<notControlVars, tabCache>>

\* prepareContentScript's ensureContentScript request is answered by the service
\* worker or rejects
Ensure(i, env, delivered) ==
  /\ i \in DOMAIN controller.flights
  /\ \E f \in {controller.flights[i]} :
       /\ f.at = "ensure"
       /\ \E r \in {BackgroundService_handleMessage(
                       tabCache, Request("ensureContentScript", ActiveTab), now, env)} :
            /\ tabCache' = IF delivered THEN r.tabs ELSE tabCache
            /\ Controlled(IF delivered /\ r.responses[1].success
                          THEN Proceed(controller, i,
                                       IF f.fn = "toggle" THEN "send" ELSE "statusquery")
                          ELSE NotPrepared(controller, i),
                          f.fn, f.at,
                          IF delivered /\ r.responses[1].success
                          THEN "prepared" ELSE "not prepared")
  /\ UNCHANGED notControlVars

\* toggleScan's toggleScan message is answered by the content script or rejects
Send(i, delivered) ==
  /\ i \in DOMAIN controller.flights
  /\ controller.flights[i] = [fn |-> "toggle", at |-> "send"]
  /\ \E r \in {MessageHandler_handleMessage(State, Request("toggleScan", ActiveTab),
                                             "bound")} :
       IF delivered
       THEN /\ Commit(r.state)
            /\ Controlled(MirrorAnswer(controller, i, r.responses[1].isScanning),
                          "toggle", "send", "answered")
       ELSE /\ Commit(State)
            /\ Controlled(ToggleCaught(controller, i), "toggle", "send", "rejected")
  /\ lastFired' = NotFired
  /\ lastEvent' = NoEvent
  /\ UNCHANGED <<clipboard, lastCopy, hoverTrail, messageVars>>

\* checkScanStatus's getScanStatus message is answered or rejects
Status(i, delivered) ==
  /\ i \in DOMAIN controller.flights
  /\ controller.flights[i] = [fn |-> "check", at |-> "status"]
  /\ \E r \in {MessageHandler_handleMessage(State, Request("getScanStatus", ActiveTab),
                                             "bound")} :
       Controlled(IF delivered
                  THEN MirrorAnswer(controller, i, r.responses[1].isScanning)
                  ELSE Return(updateStatus(controller, "normal"), i),
                  "check", "status", IF delivered THEN "answered" ELSE "rejected")
  /\ UNCHANGED <<notControlVars, tabCache>>

\* The 3 s timeout of toggleScan's catch block runs
RestoreTimer ==
  /\ controller.restoreTimers > 0
  /\ Controlled(updateButtonState([controller EXCEPT !.restoreTimers = @ - 1], "normal"),
                "toggle", "timer", "restored")
  /\ UNCHANGED <<notControlVars, tabCache>>

ControlNext ==
  \/ ControllerClick
  \/ \E i \in 1..MaxFlights, outcome \in {"none", "unsupported", "tab"} :
       TabQuery(i, outcome)
  \/ \E i \in 1..MaxFlights, delivered \in BOOLEAN : Ping(i, delivered)
  \/ \E i \in 1..MaxFlights, env \in TabEnvs, delivered \in BOOLEAN :
       Ensure(i, env, delivered)
  \/ \E i \in 1..MaxFlights, delivered \in BOOLEAN : Send(i, delivered)
  \/ \E i \in 1..MaxFlights, delivered \in BOOLEAN : Status(i, delivered)
  \/ RestoreTimer

SpecControl == Init /\ [][ControlNext]_vars

-----------------------------------------------------------------------------
(* The service worker at work on one tab: ensureContentScript requests that
   overlap, the tab's answers to pings, injections, the page replaced by a
   navigation, the tab closed, and the clock. *)

\* How many ensureContentScript calls are under way at once
MaxRequests == 2

\* How many injections into one page are followed
MaxInjections == 2

\* How many cache ages the clock runs over
MaxWorkerPeriods == 2

\* A step of the service worker is observed
Worked(r, step) ==
  /\ tabCache' = r.tabs
  /\ worker' = r.worker
  /\ lastCall' = [op |-> "ensure", input |-> step, result |-> r.answer]
  /\ lastMessage' = NoMessage
  /\ UNCHANGED <<cacheVars, selectorVars, copyVars, scanVars, controller>>

\* What happens to the tab or the clock
TabStep(w, tabs, t, step) ==
  /\ worker' = w
  /\ tabCache' = tabs
  /\ now' = t
  /\ lastCall' = [op |-> "tab", input |-> step, result |-> NoAnswer]
  /\ lastMessage' = NoMessage
  /\ UNCHANGED <<cache, selectorCache, lastClearTime, nextCleanup, pageStyle, lastGet,
                 selectorVars, copyVars, scanVars, controller>>

\* An ensureContentScript request for the tab reaches the service worker
EnsureRequest ==
  /\ Len(worker.flights) < MaxRequests
  /\ Worked(ensureStart(tabCache, worker, ActiveTab, now), "request")

\* The first ping of a call comes back; only a loaded content script answers
\* pong, and even a loaded one may miss the 1000 ms
PingBack(i, pong) ==
  /\ i \in DOMAIN worker.flights /\ worker.flights[i].at = "ping"
  /\ pong => worker.open /\ worker.loaded
  /\ Worked(ensurePinged(tabCache, worker, i, now, pong), "ping")

\* The injection of a call resolves or rejects; into a closed tab it rejects
InjectBack(i, ok) ==
  /\ i \in DOMAIN worker.flights /\ worker.flights[i].at = "inject"
  /\ ok => worker.open /\ worker.injections < MaxInjections
  /\ Worked(ensureInjected(tabCache, worker, i, now, ok), "inject")

\* The 500 ms after the injection are over
DelayOver(i) ==
  /\ i \in DOMAIN worker.flights /\ worker.flights[i].at = "delay"
  /\ Worked(Await(tabCache, worker, i, "verify"), "delay")

\* The ping after the injection comes back
VerifyBack(i, outcome) ==
  /\ i \in DOMAIN worker.flights /\ worker.flights[i].at = "verify"
  /\ outcome = "pong" => worker.open /\ worker.loaded
  /\ Worked(ensureVerified(tabCache, worker, i, now, outcome), "verify")

\* The tab navigates or reloads: a new page, without the content script
PageReplaced ==
  /\ worker.open /\ worker.loaded
  /\ TabStep([worker EXCEPT !.loaded = FALSE, !.injections = 0], tabCache, now, "navigate")

\* chrome.tabs.onRemoved: the tab is closed and its cache entry deleted
TabRemoved ==
  /\ worker.open
  /\ TabStep([worker EXCEPT !.open = FALSE, !.loaded = FALSE],
             MapDelete(tabCache, ActiveTab), now, "remove")

\* The clock moves on by the age limit of the tab cache
WorkerTick ==
  /\ now < MaxWorkerPeriods * tabCacheAge
  /\ TabStep(worker, tabCache, now + tabCacheAge, "tick")

WorkerNext ==
  \/ EnsureRequest
  \/ \E i \in 1..MaxRequests, pong \in BOOLEAN : PingBack(i, pong)
  \/ \E i \in 1..MaxRequests, ok \in BOOLEAN : InjectBack(i, ok)
  \/ \E i \in 1..MaxRequests : DelayOver(i)
  \/ \E i \in 1..MaxRequests, outcome \in {"pong", "other", "silent"} :
       VerifyBack(i, outcome)
  \/ PageReplaced
  \/ TabRemoved
  \/ WorkerTick

SpecWorker == Init /\ [][WorkerNext]_vars

-----------------------------------------------------------------------------
(* Claims on the scanner *)

\* The popup elements in the page
PopupElements == (IF popup.exists /\ popup.attached THEN 1 ELSE 0) + strayPopups

\* C1: in every reachable state the page holds at most one popup element (the
\* orchestrator's inspection result is the single slot currentElementData).
C1_Original == PopupElements <= 1

\* The element an inspection result was made for
InspectedNode == currentElementData.element.node

\* C7: after a hover or click inspection of E the stored result carries the
\* selector the style cache computed for E and E's lowercase tag name, and a
\* selector copy from the popup writes exactly that selector.
C7_Original ==
  /\ currentElementData # NoData =>
       /\ currentElementData.element.kind = "info"
       /\ SelectorProperty(currentElementData.element) = selectorCache[InspectedNode]
       /\ TagNameProperty(currentElementData.element) = ToLowerCase(TagName(InspectedNode))
  /\ lastCopy.called /\ lastCopy.type = "selector" =>
       /\ ~lastCopy.raised
       /\ lastCopy.board = [set |-> TRUE, text |-> selectorCache[lastCopy.data.element.node]]

\* The step is a pointer-move, pointer-over or pointer-out, or a timer one of
\* them left behind.
PointerStep ==
  lastEvent'.kind \in {"move", "over", "out", "grace"} \/ lastFired'.fired

\* While pinned, a pointer event and the timers it left leave the popup where
\* it is.
PinnedStays == (PointerStep /\ isPinned /\ popup.exists) => popup' = popup

\* C8: while the popup is pinned no pointer-move, pointer-over or pointer-out
\* changes its left/top; once unpinned, a pointer-move that gets through the
\* throttle while scanning, with the popup still there and a target outside the
\* popup, puts the popup at the position computed for that mouse position.
C8_PinnedStaysUnpinnedFollows ==
  [][/\ PinnedStays
     /\ lastEvent'.kind = "move" /\ lastEvent'.acts
          => popup'.pos = BestPosition(mousePosition', PopupRect(popup))]_vars

\* C8 witness: a popup made by a click, hence pinned once, is now unpinned and
\* the move just dispatched took it from its place to the cursor.
C8_Witness ==
  /\ lastEvent.kind = "move" /\ lastEvent.acts
  /\ currentElementData.isPinned /\ ~isPinned
  /\ popup.exists /\ popup.attached
  /\ popup.pos # lastEvent.from
  /\ popup.pos = BestPosition(mousePosition, PopupRect(popup))

\* C8 as stated: once a pinned popup (one made by a click) is unpinned, the
\* next pointer-move that gets through the throttle repositions it.
C8_Original ==
  [][/\ PinnedStays
     /\ (lastEvent'.kind = "move" /\ ~inThrottle /\ popup.exists /\ popup.attached
           /\ currentElementData.isPinned /\ ~isPinned)
          => popup'.pos = BestPosition(mousePosition', PopupRect(popup))]_vars

GracePending == \E k \in DOMAIN timers : timers[k].kind = "grace"

\* C9: of the pointer-over events dispatched since the debounce last settled,
\* only the last reaches the hover callback and it does so once: one callback
\* waits, for the last target, and when it runs it is that target's.
C9_DebounceLastOnly ==
  /\ lastFired.fired =>
       lastFired.trail.count >= 1 /\ lastFired.target = lastFired.trail.last
  /\ Cardinality({k \in DOMAIN timers : timers[k].kind = "hover"}) <= 1
  /\ hoverTrail.count >= 1 =>
       \E k \in DOMAIN timers :
         timers[k].kind = "hover" /\ timers[k].target = hoverTrail.last

\* C9 witness: three pointer-overs, the last on C, and the callback ran for C.
C9_Witness ==
  lastFired.fired /\ lastFired.trail.count = 3 /\ lastFired.target = "C"

\* C10: a pointer-out reaches the orchestrator in the step that dispatches it
\* (the highlight is gone and the grace timer waits) and leaves no hover
\* callback pending, so the pointer-over before it never reaches the callback.
C10_OutImmediateCancels ==
  /\ lastEvent.kind = "out" =>
       /\ ~HoverPending
       /\ lastEvent.acts => highlightedElement = NoNode /\ GracePending
  /\ hoverTrail.count = 0 => ~HoverPending

\* C10 witness: a pointer-out dispatched while a hover callback was pending.
C10_Witness ==
  lastEvent.kind = "out" /\ lastEvent.pending /\ lastEvent.acts /\ ~HoverPending

\* The throttle's window is open while its timer is pending
ThrottlePending == \E k \in DOMAIN timers : timers[k].kind = "throttle"

\* C11: the pointer-move callback runs at most once per 16 ms window.  The window
\* is open exactly while the one throttle timer is pending; a pointer-move that
\* arrives then changes nothing (the pointer is not recorded, no timer is added
\* for it); one that arrives with the window shut runs the callback, records the
\* pointer and opens the window; and the timer that shuts the window runs no
\* callback: pointer and popup stay as they are.
C11_ThrottleDrops ==
  /\ [](/\ inThrottle <=> ThrottlePending
        /\ Cardinality({k \in DOMAIN timers : timers[k].kind = "throttle"}) <= 1)
  /\ [][/\ (lastEvent'.kind = "move" /\ inThrottle) => State' = State
        /\ (lastEvent'.kind = "move" /\ ~inThrottle)
             => inThrottle' /\ mousePosition' = lastEvent'.point
        /\ (inThrottle /\ ~inThrottle')
             => mousePosition' = mousePosition /\ popup' = popup]_vars

\* C11 happens: a pointer-move was dropped while an unpinned popup was open, and
\* the pointer on record is still the earlier one.
C11_Witness ==
  /\ lastEvent.kind = "move" /\ lastEvent.dropped /\ lastEvent.point # mousePosition
  /\ popup.exists /\ popup.attached /\ ~isPinned /\ inThrottle

\* C12 as stated: callbacks run in the order their events were delivered.  The
\* hover callback that runs belongs to the last pointer-over delivered; no click,
\* key-down or pointer-move delivered after that pointer-over has had its
\* callback run before it.
C12_Original == lastFired.fired => ~lastFired.trail.passed

\* An explicit failure response: {success: false, error}
IsFailure(response) == DOMAIN response = {"success", "error"} /\ ~response.success

\* C13: every inbound command gets exactly one response.  In the content script
\* ping gets {pong: true}; a request that is null or whose action is none of
\* ping, toggleScan, getScanStatus gets {success: false, error}, and so does a
\* toggleScan or getScanStatus whose callback throws.  In the service worker
\* every request other than ensureContentScript gets {success: false, error}.
C13_OneResponse ==
  lastMessage.service # "none" =>
    /\ Len(lastMessage.responses) = 1
    /\ LET request == lastMessage.request
           response == lastMessage.responses[1]
           known == {"ping", "toggleScan", "getScanStatus"}
       IN /\ lastMessage.service = "content" =>
               /\ request.isObject /\ request.action = "ping"
                    => response = [pong |-> TRUE]
               /\ ~request.isObject \/ request.action \notin known
                    => IsFailure(response)
               /\ (request.isObject /\ request.action \in known \ {"ping"}
                     /\ lastMessage.callback = "throws")
                    => IsFailure(response)
          /\ lastMessage.service = "background" =>
               /\ ~request.isObject \/ request.action # "ensureContentScript"
                    => IsFailure(response)
               /\ request.isObject /\ request.action = "ensureContentScript"
                    => response = [success |-> TRUE] \/ IsFailure(response)

\* C13 happens: an unknown action was answered by the content script.
C13_Witness ==
  /\ lastMessage.service = "content" /\ lastMessage.request.isObject
  /\ lastMessage.request.action = "reload"
  /\ lastMessage.responses = <<Failure("Unknown action")>>

\* The latest message was this action, sent to the content script as
\* CSSScanner.init set it up
ContentCommand(action) ==
  /\ lastMessage.service = "content" /\ lastMessage.callback = "bound"
  /\ lastMessage.request.isObject /\ lastMessage.request.action = action

\* C14: a toggleScan command flips isScanning and answers {success: true,
\* isScanning: s} with s the state after the toggle; two toggles in a row give
\* back the scanning state they started from.
C14_ToggleFlips ==
  /\ ContentCommand("toggleScan") =>
       /\ isScanning = ~lastMessage.wasScanning
       /\ lastMessage.responses = <<[success |-> TRUE, isScanning |-> isScanning]>>
  /\ toggleScan(toggleScan(State)).isScanning = isScanning

\* C14 happens: toggleScan received while inactive has started the scan.
C14_Witness ==
  /\ ContentCommand("toggleScan") /\ ~lastMessage.wasScanning
  /\ isScanning /\ listening
  /\ lastMessage.responses = <<[success |-> TRUE, isScanning |-> TRUE]>>

\* C15: a getScanStatus command answers the current isScanning value and leaves
\* the orchestrator as it was: scanning and pinned flags, popup, highlight,
\* caches, inspection result, listeners, timers.
C15_StatusReadsOnly ==
  [][ContentCommand("getScanStatus")' =>
       /\ lastMessage'.responses = <<[isScanning |-> isScanning]>>
       /\ State' = State
       /\ UNCHANGED <<cacheVars, clipboard, tabCache>>]_vars

\* C15 happens: the status was asked while a pinned popup was open.
C15_Witness ==
  /\ ContentCommand("getScanStatus")
  /\ isScanning /\ isPinned /\ popup.exists /\ popup.attached
  /\ currentElementData # NoData
  /\ lastMessage.responses = <<[isScanning |-> TRUE]>>

\* C16 as stated: no state is inactive and pinned, and no step leads from
\* active and pinned straight to inactive.
C16_Original ==
  /\ [](~isScanning => ~isPinned)
  /\ [][isScanning /\ isPinned => isScanning']_vars

\* C17 as stated: while the scan is stopped nothing of it is left: the listeners
\* are off the document, no element is highlighted, no popup is in the page and
\* there is no inspection result, whatever timers were pending at the stop.
C17_Original ==
  ~isScanning =>
    /\ ~listening
    /\ highlightedElement = NoNode /\ marked = {}
    /\ ~PopupInPage
    /\ currentElementData = NoData

\* C18 as stated: every step that stops the scan leaves the popup manager
\* unpinned, with no pinned position.
C18_Original ==
  [][isScanning /\ ~isScanning'
       => ~isPinned' /\ pinnedPosition' = NoPinnedPosition]_vars

\* C19: every step that starts the scan ends with the scan active, the popup
\* manager unpinned with no pinned position, no element highlighted or
\* remembered as last hovered, both caches empty and the listeners on the
\* document.
C19_StartResets ==
  [][~isScanning /\ isScanning'
       => /\ ~isPinned' /\ pinnedPosition' = NoPinnedPosition
          /\ highlightedElement' = NoNode /\ marked' = {}
          /\ lastHoverElement' = NoNode
          /\ cache' = EmptyMap /\ selectorCache' = EmptyMap
          /\ listening']_vars

\* C19 happens: the scan has just been started by a command, and the caches
\* are empty.
C19_Witness ==
  /\ ContentCommand("toggleScan") /\ ~lastMessage.wasScanning /\ isScanning
  /\ ~isPinned /\ ~pinnedPosition.set /\ lastHoverElement = NoNode
  /\ cache = EmptyMap /\ selectorCache = EmptyMap

\* C20: a key-down of Escape while active and pinned only unpins: the popup
\* stays, the scan stays active, and the next pointer-move that gets through to
\* an element repositions the popup; while active and not pinned it stops the
\* scan.  Any other key changes nothing, and no key changes anything while
\* inactive.
C20_EscapeUnpinsOrStops ==
  /\ [](~isScanning => \A key \in Keys : handleKeyDown(State, key) = State)
  /\ [][lastEvent'.kind = "key" =>
          /\ (lastEvent'.key = "Escape" /\ isScanning /\ isPinned) =>
               /\ isScanning' /\ listening' /\ ~isPinned'
               /\ popup' = [popup EXCEPT !.pinnedLook = FALSE]
               /\ currentElementData' = currentElementData
               /\ \A target \in ScanElements, point \in MousePoints :
                    popup'.exists /\ ~inThrottle' =>
                      throttle(State', target, point).popup.pos
                        = BestPosition(point, PopupRect(popup'))
          /\ (lastEvent'.key = "Escape" /\ isScanning /\ ~isPinned) =>
               ~isScanning' /\ State' = stopScan(State)
          /\ lastEvent'.key # "Escape" => State' = State]_vars

\* C20 happens: Escape has unpinned an open popup and the scan goes on.
C20_Witness ==
  /\ lastEvent.kind = "key" /\ lastEvent.key = "Escape" /\ lastEvent.wasPinned
  /\ isScanning /\ ~isPinned /\ popup.exists /\ popup.attached

\* The inspection result CSSScanner.analyzeElement stores for `element` from the
\* caches as they are after the inspection
InspectionOf(element, willPin, c, sc, mk) ==
  StoredElementData(CssInfo(element, mk, c[element].style, sc[element]), element, willPin)

OverActs(target) ==
  isScanning /\ ~isPinned /\ ~isPopupElement(target) /\ lastHoverElement # target

\* C22: the debounced pointer-over on T, when scanning is active, the popup is
\* not pinned, T is not inside the popup and T is not the last-hovered element,
\* makes T the one highlighted element, stores T's inspection result and shows
\* a popup placed for the recorded mouse position; in every other case the
\* highlight, the popup, the pinned flag and the inspection result stay as
\* they are.
C22_OverInspectsOrNothing ==
  [][lastFired'.fired =>
       /\ OverActs(lastFired'.target) =>
            /\ highlightedElement' = lastFired'.target
            /\ marked' = {lastFired'.target}
            /\ lastHoverElement' = lastFired'.target
            /\ currentElementData'
                 = InspectionOf(lastFired'.target, FALSE, cache', selectorCache', marked')
            /\ popup'.exists /\ popup'.attached /\ ~popup'.pinnedLook
            /\ popup'.pos = BestPosition(mousePosition, PopupRect(popup'))
            /\ ~isPinned'
       /\ ~OverActs(lastFired'.target) =>
            /\ highlightedElement' = highlightedElement /\ marked' = marked
            /\ popup' = popup /\ isPinned' = isPinned
            /\ currentElementData' = currentElementData]_vars

\* C22's other case happens: the callback ran for the element hovered last, whose highlight
\* a pointer-out had removed and whose popup the grace timer had closed, and
\* nothing was highlighted or shown.
C22_WitnessSame ==
  /\ lastFired.fired /\ lastFired.target = "A" /\ lastHoverElement = "A"
  /\ isScanning /\ ~isPinned
  /\ highlightedElement = NoNode /\ ~popup.exists
  /\ currentElementData.element = [kind |-> "node", node |-> "A"]

\* C22 happens: the callback ran for p after div#a and moved the highlight
\* and the popup to p.
C22_Witness ==
  /\ lastFired.fired /\ lastFired.target = "B"
  /\ highlightedElement = "B" /\ marked = {"B"} /\ popup.attached
  /\ "A" \in DOMAIN cache
  /\ currentElementData.element = [kind |-> "node", node |-> "B"]

\* The grace timers pending
GraceTimers == SelectSeq(timers, LAMBDA t : t.kind = "grace")

\* The recorded mouse position lies in the box of the popup
CursorOverPopup ==
  /\ popup.exists /\ popup.attached /\ popup.pos # NoPosition
  /\ mousePosition[1] \in popup.pos[1]..(popup.pos[1] + PopupWidth)
  /\ mousePosition[2] \in popup.pos[2]..(popup.pos[2] + PopupHeight)

\* C23: a pointer-out while active and not pinned, with a target outside the
\* popup and a related target that is neither an ancestor nor a descendant of
\* the target, removes the highlight in the same step, leaves the popup open and
\* leaves one more callback waiting for 100 ms; any other pointer-out (to an
\* ancestor or a descendant among them) changes neither highlight, popup, pinned
\* flag, inspection result nor the callbacks waiting for the grace period.  When
\* the callback runs it closes the popup, unless the popup is then pinned or the
\* cursor is then over the popup, in which case the popup stays as it is.
C23_OutGrace ==
  [][/\ (lastEvent'.kind = "out" /\ OutActs(lastEvent'.target, lastEvent'.related)) =>
          /\ highlightedElement' = NoNode /\ marked' = {}
          /\ [popup' EXCEPT !.sinceOut = popup.sinceOut] = popup
          /\ SelectSeq(timers', LAMBDA t : t.kind = "grace")
               = Append(GraceTimers, [kind |-> "grace", delay |-> 100, target |-> NoNode,
                                      held |-> FALSE, old |-> FALSE])
     /\ (lastEvent'.kind = "out" /\ ~OutActs(lastEvent'.target, lastEvent'.related)) =>
          /\ highlightedElement' = highlightedElement /\ marked' = marked
          /\ popup' = popup /\ isPinned' = isPinned
          /\ currentElementData' = currentElementData
          /\ SelectSeq(timers', LAMBDA t : t.kind = "grace") = GraceTimers
     /\ lastEvent'.kind = "grace" =>
          /\ Len(SelectSeq(timers', LAMBDA t : t.kind = "grace")) = Len(GraceTimers) - 1
          /\ highlightedElement' = highlightedElement /\ isPinned' = isPinned
          /\ IF isPinned \/ CursorOverPopup THEN popup' = popup
             ELSE popup' = NoPopup]_vars

\* C23 happens: the grace period of a pointer-out from div#a is over with the
\* cursor inside the popup, not pinned, and the popup is still open.
C23_Witness ==
  /\ lastEvent.kind = "grace" /\ isScanning /\ ~isPinned
  /\ highlightedElement = NoNode /\ lastHoverElement = "A"
  /\ CursorOverPopup

\* C23's other cases happen: a pointer-out from p to its parent div#a, with p
\* highlighted, left the highlight; and a grace period ended with the popup
\* closed.
C23_WitnessAncestor ==
  /\ lastEvent.kind = "out" /\ lastEvent.target = "B" /\ lastEvent.related = "A"
  /\ isScanning /\ ~isPinned /\ highlightedElement = "B" /\ popup.attached

C23_WitnessClosed ==
  /\ lastEvent.kind = "grace" /\ isScanning /\ ~isPinned /\ ~popup.exists
  /\ currentElementData # NoData

\* The width and height updatePopupPosition reckons with: the measured ones, or
\* 380 and min(500, 70% of the window's height) for an empty box
ReckonedSize(rect, viewport) ==
  [width |-> IF rect.width # 0 THEN rect.width ELSE 380,
   height |-> IF rect.height # 0 THEN rect.height
              ELSE Min(500, (viewport.height * 7) \div 10)]

\* The box of size `size` at `pos` lies in the viewport with 10px to spare on
\* every side
FitsViewport(pos, size, viewport) ==
  /\ 10 <= pos[1] /\ pos[1] + size.width <= viewport.width - 10
  /\ 10 <= pos[2] /\ pos[2] + size.height <= viewport.height - 10

\* The candidates of the latest placement, in the order of the claim:
\* (x+20,y+20), (x-w-20,y+20), (x+20,y-h-20), (x-w-20,y-h-20)
PlacedCandidates ==
  LET x == lastCall.input.mouse[1]
      y == lastCall.input.mouse[2]
      size == ReckonedSize(lastCall.input.rect, lastCall.input.viewport)
  IN << <<x + 20, y + 20>>, <<x - size.width - 20, y + 20>>,
        <<x + 20, y - size.height - 20>>,
        <<x - size.width - 20, y - size.height - 20>> >>

PlacedFits(i) ==
  FitsViewport(PlacedCandidates[i],
               ReckonedSize(lastCall.input.rect, lastCall.input.viewport),
               lastCall.input.viewport)

\* C24: updatePopupPosition places the popup at the first of the candidates
\* (x+20,y+20), (x-w-20,y+20), (x+20,y-h-20), (x-w-20,y-h-20) whose box lies
\* within the viewport with a 10px margin on every side; so when a candidate
\* fits, the popup as placed lies wholly inside that margin.
C24_FirstFit ==
  lastCall.op = "position" =>
    /\ \A i \in 1..4 :
         PlacedFits(i) /\ (\A j \in 1..(i - 1) : ~PlacedFits(j))
           => lastCall.result = PlacedCandidates[i]
    /\ (\E i \in 1..4 : PlacedFits(i))
         => FitsViewport(lastCall.result,
                         ReckonedSize(lastCall.input.rect, lastCall.input.viewport),
                         lastCall.input.viewport)

\* C24 happens: the first three candidates do not fit and the popup was placed
\* above and left of the cursor.
C24_Witness ==
  /\ lastCall.op = "position"
  /\ ~PlacedFits(1) /\ ~PlacedFits(2) /\ ~PlacedFits(3) /\ PlacedFits(4)
  /\ lastCall.result = PlacedCandidates[4]

\* C25 (as amended): when none of the four candidates fits, the chosen position
\* is the first candidate clamped, px = max(10, min(x+20, W-w-10)) and
\* py = max(10, min(y+20, H-h-10)): px >= 10 and py >= 10, with px <= W-w-10
\* whenever w <= W-20 and py <= H-h-10 whenever h <= H-20; on an axis on which
\* the popup is larger than the viewport less both margins the coordinate is 10.
C25_ClampedWhenRoom ==
  (lastCall.op = "position" /\ \A i \in 1..4 : ~PlacedFits(i)) =>
    LET size == ReckonedSize(lastCall.input.rect, lastCall.input.viewport)
        W == lastCall.input.viewport.width
        H == lastCall.input.viewport.height
        px == lastCall.result[1]
        py == lastCall.result[2]
    IN /\ px = Max(10, Min(PlacedCandidates[1][1], W - size.width - 10))
       /\ py = Max(10, Min(PlacedCandidates[1][2], H - size.height - 10))
       /\ px >= 10 /\ py >= 10
       /\ size.width <= W - 20 => px <= W - size.width - 10
       /\ size.height <= H - 20 => py <= H - size.height - 10
       /\ size.width > W - 20 => px = 10
       /\ size.height > H - 20 => py = 10

\* C25 happens: no candidate fits in a window the popup has room in, and the
\* first candidate was pulled back to the right margin.
C25_Witness ==
  /\ lastCall.op = "position" /\ \A i \in 1..4 : ~PlacedFits(i)
  /\ lastCall.input.rect.width <= lastCall.input.viewport.width - 20
  /\ lastCall.input.rect.height # 0
  /\ lastCall.input.rect.height <= lastCall.input.viewport.height - 20
  /\ lastCall.result[1] < PlacedCandidates[1][1]
  /\ lastCall.result[1] = lastCall.input.viewport.width - lastCall.input.rect.width - 10

\* C25 as stated: whenever none of the four candidates fits, the chosen position
\* satisfies 10 <= px <= W-w-10 and 10 <= py <= H-h-10.
C25_Original ==
  (lastCall.op = "position" /\ \A i \in 1..4 : ~PlacedFits(i)) =>
    LET size == ReckonedSize(lastCall.input.rect, lastCall.input.viewport)
    IN /\ 10 <= lastCall.result[1]
       /\ lastCall.result[1] <= lastCall.input.viewport.width - size.width - 10
       /\ 10 <= lastCall.result[2]
       /\ lastCall.result[2] <= lastCall.input.viewport.height - size.height - 10

\* C26 as stated: extractCSSInfo never raises, and when a step of the extraction
\* has thrown the result carries tag name, class and id with the selector
\* "unknown" and empty computed, inline and categorized maps.
C26_Original ==
  lastCall.op = "extract" =>
    /\ ~lastCall.result.raised
    /\ lastCall.result.failed =>
         /\ DOMAIN lastCall.result.info.element
              = {"kind", "tagName", "className", "id", "selector"}
         /\ lastCall.result.info.element.selector = S("unknown")
         /\ lastCall.result.info.computed = EmptyMap
         /\ lastCall.result.info.inline = EmptyMap
         /\ lastCall.result.info.categorized = EmptyMap

\* The step is the handling of a click, a pointer-move or a key-down, or the run
\* of the debounced pointer-over callback, and an error was reported in it.
HandlingFailed ==
  /\ lastEvent'.kind \in {"click", "move", "key"} \/ lastFired'.fired
  /\ errorCounts' # errorCounts

\* C27: a failing inspection or popup render inside an event callback does not
\* end the scan session: the step leaves isScanning and the listeners as they
\* were, and the events that follow are handled: a pointer-over sets its
\* debounce timer, a click on an element unpins when pinned and else inspects
\* and pins, Escape unpins or stops.
C27_FailureKeepsSession ==
  [][HandlingFailed =>
       /\ isScanning /\ isScanning' /\ listening'
       /\ \A target \in ScanElements :
            /\ EventHandler_handleMouseOver(State', target).timers
                 # clearHoverTimeout(State').timers
            /\ IF isPinned'
               THEN ~EventHandler_handleClick(State', target, FALSE).isPinned
               ELSE /\ EventHandler_handleClick(State', target, FALSE).isPinned
                    /\ EventHandler_handleClick(State', target, FALSE)
                         .currentElementData.element = [kind |-> "node", node |-> target]
       /\ EventHandler_handleKeyDown(State', "Escape") # State']_vars

\* C27 happens: the inspection of the hovered form failed in the debounced
\* callback, after a render had failed too, and the scan is still on.
C27_Witness ==
  /\ lastFired.fired /\ lastFired.target = Form
  /\ ErrorCount(errorCounts, "CSS_ANALYSIS_FAILED", "TypeError") > 0
  /\ ErrorCount(errorCounts, "POPUP_RENDER_FAILED", "render") > 0
  /\ highlightedElement = Form
  /\ isScanning /\ listening

\* The occurrences of the error key of the latest handleError call
CountOf(counts) == ErrorCount(counts, lastCall'.input.type, lastCall'.input.message)

\* C28: every occurrence of an error raises its key's counter by one and leaves
\* the other keys' counters alone; the fourth and later occurrences of a key
\* (three counted before) get no recovery attempt and no user message, the
\* first three get both.
C28_SuppressedStillCounted ==
  [][lastCall'.op = "error" =>
       /\ CountOf(errorCounts') = CountOf(errorCounts) + 1
       /\ \A k \in DOMAIN errorCounts :
            k # <<lastCall'.input.type, lastCall'.input.message>>
              => errorCounts'[k] = errorCounts[k]
       /\ (CountOf(errorCounts) >= 3) = lastCall'.result.suppressed
       /\ lastCall'.result.attempted = ~lastCall'.result.suppressed
       /\ lastCall'.result.reported = ~lastCall'.result.suppressed]_vars

\* C28 happens: the fifth occurrence of a key was counted and suppressed while
\* another key has been seen once.
C28_Witness ==
  /\ lastCall.op = "error" /\ lastCall.result.suppressed
  /\ ~lastCall.result.attempted /\ ~lastCall.result.reported
  /\ ErrorCount(errorCounts, lastCall.input.type, lastCall.input.message) = 5
  /\ \E type \in ReportedTypes : ErrorCount(errorCounts, type, "TypeError") = 1

\* C28 happens at the threshold: the third occurrence is still reported.
C28_WitnessThird ==
  /\ lastCall.op = "error" /\ ~lastCall.result.suppressed
  /\ lastCall.result.attempted /\ lastCall.result.reported
  /\ ErrorCount(errorCounts, lastCall.input.type, lastCall.input.message) = 3

\* C30: generateOptimizedSelector answers "body" for no element and for the body
\* element, highlighted or not; for the document's root element it answers the
\* root's own selector, "html".
C30_BodyForBodyOrNone ==
  lastCall.op = "select" =>
    /\ lastCall.input.element \in {NoNode, Body} => lastCall.result = S("body")
    /\ lastCall.input.element = Html => lastCall.result = S("html")

\* C30 happens: the selector of a missing element was asked for
C30_Witness ==
  /\ lastCall.op = "select" /\ lastCall.input.element = NoNode
  /\ lastCall.result = S("body")

\* C30 happens for the body element carrying the highlight
C30_WitnessBody ==
  /\ lastCall.op = "select" /\ lastCall.input.element = Body
  /\ lastCall.input.marked = {Body}
  /\ lastCall.result = S("body")

\* C30 as stated: "body" for the document's root element too (does not hold)
C30_Original ==
  (lastCall.op = "select" /\ lastCall.input.element \in {Html, Body})
    => lastCall.result = S("body")

\* A toggle ended in one of its failure branches in this step
ToggleFailed ==
  /\ lastCall'.op = "control" /\ lastCall'.input.fn = "toggle"
  /\ lastCall'.result \in {"not prepared", "rejected"}
  /\ lastCall'.input.step \in {"ensure", "send"}

\* C29 as stated: a toggle that fails because the preparation fails or the
\* round trip rejects leaves the mirror as it was, and the button, shown in its
\* error state, has a restore to its normal state pending (does not hold: the
\* preparation's failure branch schedules none).
C29_Original ==
  [][ToggleFailed =>
       /\ controller'.isScanning = controller.isScanning
       /\ controller'.look = "error"
       /\ controller'.restoreTimers > 0]_vars

\* What does hold: the mirror is left alone by every failing toggle, and the
\* rejected round trip schedules the restore, which puts the button back to
\* the look of the mirror.
C29_RejectedRestores ==
  [][/\ ToggleFailed =>
          /\ controller'.isScanning = controller.isScanning
          /\ controller'.look = "error" /\ ~controller'.disabled
          /\ lastCall'.result = "rejected"
               => controller'.restoreTimers = controller.restoreTimers + 1
          /\ lastCall'.result = "not prepared"
               => controller'.restoreTimers = controller.restoreTimers
     /\ lastCall'.result = "restored" =>
          /\ controller'.look = "normal" /\ ~controller'.disabled
          /\ controller'.icon = "target"
          /\ controller'.active = controller.isScanning
          /\ controller'.isScanning = controller.isScanning]_vars

\* The failing preparation leaves the button in its error state with nothing
\* under way that would change it
C29_StuckInError ==
  /\ controller.look = "error" /\ controller.text = "Error Occurred"
  /\ controller.restoreTimers = 0 /\ controller.flights = << >>
  /\ lastCall.result = "not prepared"

\* The values the analyzer leaves out, padding aside
Uninteresting(value) ==
  Trim(value) \in {S("auto"), S("normal"), S("none"), S("initial"), S("inherit"),
                   S("unset"), S("0px"), S("0"), S("rgba(0, 0, 0, 0)"),
                   S("transparent")}

\* Every property name of a snapshot or of an allow-list
KnownProps == PageProps \cup UNION {cssCategories[c] : c \in DOMAIN cssCategories}

\* C31: categorizeStyles puts a property into a category exactly when the
\* property is in the category's allow-list, the snapshot has a non-empty
\* value for it and that value is not uninteresting; a category of the result
\* has at least one property, and each value is the snapshot's.
C31_Categorized ==
  lastCall.op = "categorize" =>
    /\ DOMAIN lastCall.result \subseteq DOMAIN cssCategories
    /\ \A c \in DOMAIN cssCategories, p \in KnownProps :
         (c \in DOMAIN lastCall.result /\ p \in DOMAIN lastCall.result[c])
           <=> /\ p \in cssCategories[c]
               /\ p \in DOMAIN lastCall.input
               /\ lastCall.input[p] # EmptyStr
               /\ ~Uninteresting(lastCall.input[p])
    /\ \A c \in DOMAIN lastCall.result :
         /\ DOMAIN lastCall.result[c] # {}
         /\ DOMAIN lastCall.result[c] \subseteq KnownProps
         /\ \A p \in DOMAIN lastCall.result[c] :
              lastCall.result[c][p] = lastCall.input[p]

\* C31 happens: a snapshot with a property kept, an allow-listed property left
\* out for its value, a property of no category, and a category left out
C31_Witness ==
  /\ lastCall.op = "categorize"
  /\ "layout" \in DOMAIN lastCall.result
  /\ lastCall.result["layout"] = [p \in {"display"} |-> S("block")]
  /\ "margin" \in DOMAIN lastCall.input /\ "boxModel" \notin DOMAIN lastCall.result
  /\ "cursor" \in DOMAIN lastCall.input
  /\ "typography" \in DOMAIN lastCall.result

\* C32: the elements carrying the highlight marker are the tracker's
\* highlightedElement and nothing else: none when it is null, and never two.
C32_SingleHighlight ==
  /\ marked = (IF highlightedElement = NoNode THEN {} ELSE {highlightedElement})
  /\ Cardinality(marked) <= 1

\* C32 happens: the debounced pointer-over moved the highlight from one element
\* to another
C32_Witness ==
  /\ lastFired.fired /\ lastFired.was \in Elements
  /\ highlightedElement \in Elements \ {lastFired.was}
  /\ highlightedElement = lastFired.target
  /\ marked = {highlightedElement}

\* C33 as stated: whenever the popup manager's isPinned flag is set, a popup is
\* present in the page (does not hold: stopScan closes a pinned popup and
\* leaves the flag set, and a click whose render fails pins without a popup).
C33_Original == isPinned => popup.exists /\ popup.attached

\* The scan was stopped while the popup was pinned: the flag outlives the popup
C33_PinnedWithoutPopup == isPinned /\ ~popup.exists /\ ~isScanning

\* What does hold where the platform does not fail: while the scan is on, a
\* set flag comes with a popup in the page
C33_PinnedShownWhileScanning ==
  (isPinned /\ isScanning) => popup.exists /\ popup.attached

\* C34 as stated: when the debounced callback of a pointer-over on a page
\* element E runs (no other page event came for 100 ms) while the scan is on and
\* the popup is not pinned, E is highlighted and a popup in the page shows E's
\* inspection result afterwards (does not hold when E is entered again after
\* the pointer left it).
C34_Original ==
  [][(/\ lastFired'.fired /\ lastFired'.target \in Elements
      /\ isScanning /\ ~isPinned)
       => /\ highlightedElement' = lastFired'.target
          /\ popup'.exists /\ popup'.attached
          /\ currentElementData'.element = [kind |-> "node", node |-> lastFired'.target]]_vars

\* The element entered again is passed over: the callback ran for the element
\* hovered last, whose highlight a pointer-out had removed, and nothing is
\* highlighted or shown
C34_ReentryIgnored ==
  /\ lastFired.fired /\ lastFired.target \in Elements
  /\ lastFired.target = lastHoverElement
  /\ isScanning /\ ~isPinned
  /\ highlightedElement = NoNode /\ ~popup.exists

\* What does hold: the callback highlights and shows every element but the one
\* hovered last
C34_OtherElementShown ==
  [][(/\ lastFired'.fired /\ lastFired'.target \in Elements
      /\ isScanning /\ ~isPinned
      /\ lastFired'.target # lastHoverElement)
       => /\ highlightedElement' = lastFired'.target
          /\ popup'.exists /\ popup'.attached
          /\ currentElementData'.element = [kind |-> "node", node |-> lastFired'.target]]_vars

\* C35 as stated: the grace timer of a pointer-out leaves alone a popup that was
\* rendered after that pointer-out (does not hold: the timer closes whatever
\* popup is there and not pinned when it runs).
C35_Original ==
  [][(/\ lastEvent'.kind = "grace"
      /\ popup.exists /\ popup.attached /\ popup.sinceOut)
       => popup' = popup]_vars

\* The grace timer has just closed the popup of a click that came after the
\* pointer-out: the stored result is the click's
C35_LaterPopupClosed ==
  /\ lastEvent.kind = "grace" /\ ~popup.exists
  /\ currentElementData.isPinned /\ ~isPinned /\ isScanning

\* What does hold: the grace timer leaves a pinned popup alone, whenever it was
\* rendered
C35_PinnedSurvivesGrace ==
  [][(lastEvent'.kind = "grace" /\ isPinned) => popup' = popup]_vars

\* C36 as stated: the debounced callback of a pointer-over seen before the
\* latest stopScan highlights nothing and shows nothing (does not hold: stopScan
\* leaves the debounce pending, and it runs in the next session).
C36_Original ==
  [][(lastFired'.fired /\ lastFired'.old)
       => /\ highlightedElement' = highlightedElement
          /\ popup' = popup
          /\ currentElementData' = currentElementData]_vars

\* A pointer-over of the session before has just been acted on in this one
C36_StaleHoverShown ==
  /\ lastFired.fired /\ lastFired.old
  /\ isScanning /\ highlightedElement = lastFired.target
  /\ popup.exists /\ popup.attached

\* What does hold: while no scan is on, the callback left over does nothing
C36_IdleCallbackInert ==
  [][(lastFired'.fired /\ ~isScanning)
       => /\ highlightedElement' = highlightedElement
          /\ popup' = popup
          /\ currentElementData' = currentElementData]_vars

\* C37 as stated: the content script is injected into one page at most once
\* (does not hold: two requests that overlap both find no answer to their ping
\* and both inject, and a loaded script that misses the ping's 1000 ms is
\* injected again).
C37_Original == worker.injections <= 1

\* The page has been injected twice by two requests under way together
C37_InjectedTwice ==
  /\ worker.injections = 2 /\ worker.loaded
  /\ Len(worker.flights) = 2
  /\ \A k \in DOMAIN worker.flights : worker.flights[k].at = "delay"

\* What does hold: a call injects only after its own first ping went
\* unanswered, and a call whose first ping is answered pong does not inject
C37_InjectsAfterSilentPing ==
  [][worker'.injections > worker.injections
       => /\ lastCall'.input = "inject"
          /\ \E k \in DOMAIN worker.flights :
               /\ worker.flights[k].at = "inject"
               /\ worker'.flights[k].at = "delay"]_vars

\* C38 as stated: an answer {success: true} is given only while the content
\* script is loaded in the tab, and an answer {success: false} only by a call
\* that sent a ping or injected (does not hold: a result of the tab cache is
\* answered as it is).
C38_Original ==
  (lastCall.op = "ensure" /\ lastCall.result.given)
    => /\ lastCall.result.result.success => worker.open /\ worker.loaded
       /\ ~lastCall.result.result.success => lastCall.result.attempted

\* A cached success is answered for a tab whose page has been replaced
C38_StaleSuccess ==
  /\ lastCall.op = "ensure" /\ lastCall.result.given
  /\ lastCall.result.result.success /\ ~lastCall.result.attempted
  /\ worker.open /\ ~worker.loaded

\* A cached failure is answered though the content script is loaded by now
C38_CachedFailure ==
  /\ lastCall.op = "ensure" /\ lastCall.result.given
  /\ ~lastCall.result.result.success /\ ~lastCall.result.attempted
  /\ worker.loaded

\* What does hold: an answer a call works out itself is true only with the
\* content script loaded at that moment, and an answer taken from the tab
\* cache is the entry's result and the entry is younger than 30 s
C38_FreshAnswersSound ==
  (lastCall.op = "ensure" /\ lastCall.result.given)
    => IF lastCall.result.attempted
       THEN lastCall.result.result.success => worker.open /\ worker.loaded
       ELSE /\ ActiveTab \in DOMAIN tabCache
            /\ tabCache[ActiveTab].result = lastCall.result.result
            /\ now - tabCache[ActiveTab].timestamp < 30000

====
